---- MODULE Spec2Model ----
(***************************************************************************)
(* Tenebra ledger node: the address ledger, the transaction engine and the *)
(* block engine, as a state machine over the persistent store (addresses,  *)
(* names, blocks, transactions) and the fast store (work, validator, the   *)
(* mining/staking flags).  Every request handler is a process whose steps  *)
(* are the store calls it awaits; handlers interleave at those calls.      *)
(***************************************************************************)
EXTENDS Integers, FiniteSets, Sequences, TLC

\* ------------------------------------------------------------------ bounds
MaxAmount == 2      \* transfer amounts are drawn from 1..MaxAmount
InitBalance == 2    \* balance of the funded addresses in the initial store
MaxUnpaid == 1      \* unpaid counters in the initial store are 0..MaxUnpaid
MaxRows == 3        \* requests are taken while the transactions table is shorter
MaxKey == 10        \* private keys given to POST /v2 are numbered 1..MaxKey
MaxSamples == 4     \* samples of the work taken in one run

\* --------------------------------------------------------- program constants
minWork == 100
maxWork == 100000
workFactorInv == 40           \* workFactor = 0.025 = 1 / 40
secondsPerBlock == 60
baseValueSwitch == 325       \* getBaseBlockValue: blockID >= 325 ? 1 : 25
baseValueEarly == 25
baseValueLate == 1
defaultBlockValue == 1
nameCost == 500                    \* constants.nameCost
nonceMaxSize == 24                 \* constants.nonceMaxSize
workOverTimeStop == 1440           \* ltrim / lrange of "work-over-time": 0 .. 1440

\* ------------------------------------------------------------------ domains
Address == {"a1", "a2", "a3"}      \* v2 addresses; a3 has no row initially
Name == {"n1", "n2"}
Nonce == {1, 2, 3}
Key == {"k1", "k2"}                   \* private keys
Req == {"r1", "r2"}                \* concurrently running request handlers
NoAddr == ""                       \* the empty validator string
Null == "null"                     \* the from of a mined transaction
Seconds == {0, secondsPerBlock, 2 * secondsPerBlock}   \* time since the last block
Writes == {"decBalance", "incTotalout", "createTransaction", "creditRecipient"}

\* the operator's arguments of the debug command "setwork": below the
\* minimum, inside the range, above the maximum
DebugWork == {minWork \div 2, 95063, maxWork + maxWork \div 2}

VARIABLES
  addr,        \* addresses table: Address -> row (exists = FALSE: no row)
  unpaid,      \* names table: Name -> unpaid counter
  blocks,      \* committed rows of the blocks table
  blockSeq,    \* auto-increment counter of the blocks table
  txs,         \* committed rows of the transactions table, in id order
  work,        \* fast store: "work"
  validator,   \* fast store: "validator"
  miningEnabled, stakingEnabled,   \* fast store: "mining-enabled", "staking-enabled"
  freeNonceSubmission,             \* Tenebra.freeNonceSubmission
  names,       \* names table: Name -> row (exists = FALSE: no row)
  req,         \* the request handlers: position and locals of each
  boot,        \* Tenebra.init: position, environment, keys of the fast store
  websockets,  \* the websocket layer: one session, the events broadcast
  workOverTime \* fast store: the list "work-over-time", head first

vars == <<addr, unpaid, names, blocks, blockSeq, txs, work, validator,
          miningEnabled, stakingEnabled, freeNonceSubmission, req, boot,
          websockets, workOverTime>>

store == <<addr, unpaid, names, blocks, blockSeq, txs, work>>
flags == <<validator, miningEnabled, stakingEnabled, boot>>

\* ------------------------------------------------------------------ rows
NoKey == <<>>                         \* a row without a privatekey
NoRow == [exists |-> FALSE, balance |-> 0, totalin |-> 0, totalout |-> 0,
          stake |-> 0, penalty |-> 0, stake_active |-> FALSE,
          privatekey |-> NoKey, locked |-> FALSE]

NewRow(bal, tin, tout) ==
  [exists |-> TRUE, balance |-> bal, totalin |-> tin, totalout |-> tout,
   stake |-> 0, penalty |-> 0, stake_active |-> FALSE,
   privatekey |-> NoKey, locked |-> FALSE]

\* names table
NoNameRow == [exists |-> FALSE, owner |-> NoAddr, original_owner |-> NoAddr,
              a |-> Null, updated |-> 0]

NameRow(owner) == [exists |-> TRUE, owner |-> owner, original_owner |-> owner,
                   a |-> Null, updated |-> 0]

\* What a request gives as `to`, as the regular expressions read it: a v2
\* address, or [metaname@]name.tst (nameMetaRegex).
AddressTarget(a) == [form |-> "address", address |-> a, metaname |-> Null, name |-> Null]

NameTarget(metaname, name) ==
  [form |-> "name", address |-> NoAddr, metaname |-> metaname, name |-> name]

\* What a request gives as metadata: nothing, text, or text that begins with
\* [metaname@]name.tst (metanameMetadataRegex).
NoMetadata == [form |-> "none", metaname |-> Null, name |-> Null]

TextMetadata == [form |-> "text", metaname |-> Null, name |-> Null]

NameMetadata(metaname, name) == [form |-> "name", metaname |-> metaname, name |-> name]

ZeroEff == [bal  |-> [a \in Address |-> 0],
            tin  |-> [a \in Address |-> 0],
            tout |-> [a \in Address |-> 0],
            rows |-> 0]

Idle == [pc |-> "idle", kind |-> "none", from |-> NoAddr, to |-> NoAddr,
         amount |-> 0, recipient |-> FALSE, pending |-> {}, failed |-> FALSE,
         result |-> "none", eff |-> ZeroEff,
         nonce |-> 0, last |-> 0, difficulty |-> 0, hash |-> <<>>,
         address |-> NoAddr, free |-> FALSE, value |-> 0, valueLast |-> 0,
         oldWork |-> 0, newWork |-> 0, unpaidNames |-> {}, id |-> 0,
         tenebraAddress |-> FALSE, validator |-> NoAddr, seconds |-> 0,
         privatekey |-> "", found |-> NoRow, authed |-> FALSE,
         target |-> AddressTarget(NoAddr), metadata |-> NoMetadata,
         sent_metaname |-> Null, sent_name |-> Null, wrote |-> NoRow,
         name |-> Null, key |-> 0, made |-> [prefix |-> <<>>, taken |-> <<>>],
         rawNonce |-> [form |-> "undefined", length |-> 0, value |-> 1],
         rawAmount |-> [form |-> "number", n |-> 0]]

\* The effect a write step had on the addresses table, added to the
\* handler's running total (bookkeeping of the model, not program state).
AddEff(e, old, new, nrows) ==
  [bal  |-> [a \in Address |-> e.bal[a]  + new[a].balance  - old[a].balance],
   tin  |-> [a \in Address |-> e.tin[a]  + new[a].totalin  - old[a].totalin],
   tout |-> [a \in Address |-> e.tout[a] + new[a].totalout - old[a].totalout],
   rows |-> e.rows + nrows]

\* ------------------------------------------------------ store primitives
\* instance.increment / instance.decrement: UPDATE .. SET f = f + by
Increment(tbl, a, dbal, din, dout) ==
  [tbl EXCEPT ![a].balance = @ + dbal, ![a].totalin = @ + din,
              ![a].totalout = @ + dout]

\* The addresses table has one row per address: creating a second fails.
AddressCreateFails(tbl, a) == tbl[a].exists

AddressCreate(tbl, a, bal, tin, tout) == [tbl EXCEPT ![a] = NewRow(bal, tin, tout)]

\* Transactions.createTransaction: the row written
TransactionRowOf(to, from, value, name, sent_metaname, sent_name) ==
  [to |-> to, from |-> from, value |-> value, name |-> name,
   sent_metaname |-> sent_metaname, sent_name |-> sent_name]

\* ... by a transfer to an address or by a block: no name, nothing sent
TransactionRow(to, from, value) == TransactionRowOf(to, from, value, Null, Null, Null)

\* ---------------------------------------------------------------- Init
\* The store as a running node holds it: two funded addresses, a3 unseen,
\* two registered names, a chain whose last block is one below the block
\* value switch, and the work at its default.
InitAddr(pen) ==
  [a \in Address |->
     IF a = "a3" THEN NoRow
     ELSE [NewRow(InitBalance, InitBalance, 0) EXCEPT
             !.penalty = IF a = "a2" THEN pen ELSE 0]]

InitBlock == [id |-> baseValueSwitch - 1, hash |-> <<"a0", 0, 0>>,
              address |-> "a0", difficulty |-> maxWork, value |-> baseValueEarly]

\* The websocket layer: a guest session; no event broadcast yet; whether
\* websockets.broadcastEvent raises.
Websockets(raises) ==
  [events |-> {}, raises |-> raises, auth |-> "guest", isGuest |-> TRUE]

\* websockets.broadcastEvent called by handler r: the event goes out, or the
\* call raises
broadcastEvent(ws, event, r) ==
  [ws EXCEPT !.events = @ \cup {[event |-> event, by |-> r, raised |-> ws.raises]}]

\* The store but for the addresses table.
InitData(un) ==
  /\ names = [n \in Name |-> NameRow(IF n = "n1" THEN "a1" ELSE "a2")]
  /\ unpaid = [n \in Name |-> IF n = "n1" THEN un ELSE MaxUnpaid]
  /\ blocks = {InitBlock}
  /\ blockSeq = InitBlock.id
  /\ txs = <<>>
  /\ work = maxWork
  /\ freeNonceSubmission = FALSE
  /\ req = [r \in Req |-> Idle]

\* The store but for the addresses table, and a websocket layer that works.
InitTables(un) == InitData(un) /\ websockets = Websockets(FALSE) /\ workOverTime = <<>>

InitStore(pen, un) == addr = InitAddr(pen) /\ InitTables(un)

\* Tenebra.init has run: every key exists, the validator tick is scheduled
\* under staking.
Booted(tick) ==
  [pc |-> "done", envMining |-> FALSE, envStaking |-> FALSE, envGenesis |-> FALSE,
   miningExists |-> TRUE, stakingExists |-> TRUE, workExists |-> TRUE,
   validatorExists |-> TRUE, genesisGenned |-> TRUE,
   mining |-> FALSE, staking |-> FALSE, tick |-> tick,
   select |-> "idle", prevValidator |-> NoAddr]

\* Tenebra.init: mining forces staking off; the validator key survives
\* restarts, so a staking node may start with an elected validator.
InitFlags(mode) ==
  /\ miningEnabled = (mode = "mining")
  /\ stakingEnabled = (mode = "staking")
  /\ validator = IF mode = "staking" THEN "a1" ELSE NoAddr
  /\ boot = [Booted(mode = "staking") EXCEPT !.mining = (mode = "mining"),
                                             !.staking = (mode = "staking")]

\* ------------------------------------------------- transaction engine
Finish(r, res) == [req EXCEPT ![r].pc = "done", ![r].result = res]

\* Transactions.pushTransaction, the four writes of its Promise.all
DebitSender(tbl, s, v) == Increment(tbl, s, 0 - v, 0, 0)

IncrementTotalout(tbl, s, v) == Increment(tbl, s, 0, 0, v)

\* (changed copy: an existing recipient gets the balance but not the totalin)
CreditRecipientNoTotalin(tbl, a, v, existed) ==
  IF existed THEN Increment(tbl, a, v, 0, 0) ELSE AddressCreate(tbl, a, v, v, 0)

CreditRecipient(tbl, a, v, existed) ==
  IF existed THEN Increment(tbl, a, v, v, 0) ELSE AddressCreate(tbl, a, v, v, 0)

\* (changed copy: only the target decides whether a name is paid)
paysNameByTargetOnly(to, metadata) == to.form = "name"

\* makeTransaction: isName || metadataIsName
paysName(to, metadata) == to.form = "name" \/ metadata.form = "name"

\* makeTransaction: the name and metaname come from `to` when it is a name,
\* from the metadata otherwise
nameInfo(to, metadata) ==
  IF to.form = "name" THEN [metaname |-> to.metaname, name |-> to.name]
  ELSE [metaname |-> metadata.metaname, name |-> metadata.name]

\* (changed copy: an amount below 1 is not rejected)
makeTransactionToAnyAmount(r, from, to, metadata, amount) ==
  /\ req[r].pc = "idle"
  /\ LET started == [Idle EXCEPT !.kind = "transfer", !.from = from,
                                 !.to = to.address, !.amount = amount,
                                 !.target = to, !.metadata = metadata]
     IN req' = [req EXCEPT ![r] =
          IF ~addr[from].exists THEN [started EXCEPT !.pc = "verifyCreate"]
          ELSE IF addr[from].balance < amount
            THEN [started EXCEPT !.pc = "done", !.result = "insufficient_funds"]
          ELSE IF paysName(to, metadata)
            THEN [started EXCEPT !.pc = "getNameByName"]
          ELSE [started EXCEPT !.pc = "getRecipient"]]
  /\ UNCHANGED <<store, flags, freeNonceSubmission, websockets, workOverTime>>

\* TransactionsController.makeTransaction up to the end of addresses.verify's
\* lookup of the sender: validation, then the balance check on the row read.
makeTransactionTo(r, from, to, metadata, amount) ==
  /\ req[r].pc = "idle"
  /\ amount >= 1
  /\ LET started == [Idle EXCEPT !.kind = "transfer", !.from = from,
                                 !.to = to.address, !.amount = amount,
                                 !.target = to, !.metadata = metadata]
     IN req' = [req EXCEPT ![r] =
          IF ~addr[from].exists THEN [started EXCEPT !.pc = "verifyCreate"]
          ELSE IF addr[from].balance < amount
            THEN [started EXCEPT !.pc = "done", !.result = "insufficient_funds"]
          ELSE IF paysName(to, metadata)
            THEN [started EXCEPT !.pc = "getNameByName"]
          ELSE [started EXCEPT !.pc = "getRecipient"]]
  /\ UNCHANGED <<store, flags, freeNonceSubmission, websockets, workOverTime>>

\* ... on a request that pays a v2 address and carries no metadata
makeTransaction(r, from, to, amount) ==
  makeTransactionTo(r, from, AddressTarget(to), NoMetadata, amount)

\* makeTransaction: dbName = await names.getNameByName(...); the payment goes
\* to dbName.owner, with the metaname and dbName.name as sent
getNameByName(r) ==
  /\ req[r].pc = "getNameByName"
  /\ LET info == nameInfo(req[r].target, req[r].metadata)
         dbName == names[info.name]
     IN req' = IF ~dbName.exists THEN Finish(r, "name_not_found")
               ELSE [req EXCEPT ![r].to = dbName.owner,
                                ![r].sent_metaname = info.metaname,
                                ![r].sent_name = info.name,
                                ![r].pc = "getRecipient"]
  /\ UNCHANGED <<store, flags, freeNonceSubmission, websockets, workOverTime>>

\* Addresses.verify for an unseen address: create the row (balance 0), so
\* the balance check that follows rejects the transfer.
verifyCreate(r) ==
  /\ req[r].pc = "verifyCreate"
  /\ IF AddressCreateFails(addr, req[r].from)
       THEN /\ req' = Finish(r, "server_error")
            /\ addr' = addr
       ELSE /\ addr' = AddressCreate(addr, req[r].from, 0, 0, 0)
            /\ req' = Finish(r, "insufficient_funds")
  /\ UNCHANGED <<unpaid, names, blocks, blockSeq, txs, work, flags, freeNonceSubmission, websockets, workOverTime>>

\* pushTransaction: the lookup of the recipient, then the writes are issued.
getRecipient(r) ==
  /\ req[r].pc = "getRecipient"
  /\ req' = [req EXCEPT ![r].pc = "writes",
                        ![r].recipient = addr[req[r].to].exists,
                        ![r].pending = Writes]
  /\ UNCHANGED <<store, flags, freeNonceSubmission, websockets, workOverTime>>

\* One of the writes issued by pushTransaction completes.  No DB transaction
\* is passed (dbTx is undefined), so each write is committed on its own.
pushTransactionWrite(r, w) ==
  /\ req[r].pc = "writes"
  /\ w \in req[r].pending
  /\ LET q == req[r]
         createFails == w = "creditRecipient" /\ ~q.recipient
                          /\ AddressCreateFails(addr, q.to)
         newAddr == CASE w = "decBalance" -> DebitSender(addr, q.from, q.amount)
                      [] w = "incTotalout" -> IncrementTotalout(addr, q.from, q.amount)
                      [] w = "creditRecipient" /\ ~createFails ->
                           CreditRecipient(addr, q.to, q.amount, q.recipient)
                      [] OTHER -> addr
         newTxs == IF w = "createTransaction"
                     THEN Append(txs, TransactionRowOf(q.to, q.from, q.amount, Null,
                                                      q.sent_metaname, q.sent_name))
                     ELSE txs
         left == q.pending \ {w}
         failed == q.failed \/ createFails
                     \/ (w = "createTransaction" /\ websockets.raises)
     IN /\ addr' = newAddr
        /\ txs' = newTxs
        /\ UNCHANGED workOverTime
        /\ websockets' = IF w = "createTransaction"
                           THEN broadcastEvent(websockets, "transaction", r)
                           ELSE websockets
        /\ req' = [req EXCEPT ![r].pending = left,
                              ![r].failed = failed,
                              ![r].eff = AddEff(q.eff, addr, newAddr, Len(newTxs) - Len(txs)),
                              ![r].pc = IF left = {} THEN "done" ELSE "writes",
                              ![r].result = IF left # {} THEN "none"
                                            ELSE IF failed THEN "server_error" ELSE "ok"]
  /\ UNCHANGED <<unpaid, names, blocks, blockSeq, work, flags, freeNonceSubmission>>

Transfer(r) ==
  \/ \E from \in Address, to \in Address, amount \in 1..MaxAmount :
       makeTransaction(r, from, to, amount)
  \/ verifyCreate(r)
  \/ getRecipient(r)
  \/ \E w \in Writes : pushTransactionWrite(r, w)

\* What requests give as `to` and as metadata: a2 and a3, the names n1 and
\* n2 with and without a metaname; no metadata, text, a name in front.
Target ==
  {AddressTarget(a) : a \in {"a2", "a3"}}
    \cup {NameTarget(Null, "n1"), NameTarget("m", "n1"), NameTarget(Null, "n2")}

Metadata == {NoMetadata, TextMetadata, NameMetadata("m", "n1"), NameMetadata(Null, "n2")}

TransferTo(r) ==
  \/ \E to \in Target, metadata \in Metadata, amount \in {1, MaxAmount} :
       makeTransactionTo(r, "a1", to, metadata, amount)
  \/ getNameByName(r)
  \/ getRecipient(r)
  \/ \E w \in Writes : pushTransactionWrite(r, w)

\* ------------------------------------------------------- block engine
\* utils.sha256(address, last, nonce), taken to be collision free: the
\* digest is identified with its preimage, the last block's short hash with
\* the id of that block.
sha256(address, last, nonce) == <<address, last, nonce>>

\* parseInt(hash.substr(0, 12), 16): a digest under every work the model
\* reaches, one between the work after a fast block and the maximum work,
\* and one above the maximum work.
leading(hash) == CASE hash[3] = 1 -> 50
                   [] hash[3] = 2 -> 99000
                   [] OTHER -> 200000

\* Blocks.getLastBlock: ORDER BY id DESC LIMIT 1
getLastBlock == CHOOSE b \in blocks : \A c \in blocks : c.id <= b.id

getBaseBlockValue(blockID) ==
  IF blockID >= baseValueSwitch THEN baseValueLate ELSE baseValueEarly

\* names.getUnpaidNameCount: COUNT of the names with unpaid > 0
getUnpaidNameCount == Cardinality({n \in Name : unpaid[n] > 0})

\* Staking.getUnpaidPenaltyCount: COUNT of the addresses with penalty > 0
getUnpaidPenaltyCount ==
  Cardinality({a \in Address : addr[a].exists /\ addr[a].penalty > 0})

\* Blocks.getBlockValue, from the id of the last block it read
getBlockValue(lastId) == getBaseBlockValue(lastId) + getUnpaidNameCount

\* GET /work/detailed: block_value
detailedBlockValue(lastId) ==
  getBaseBlockValue(lastId) + getUnpaidNameCount + getUnpaidPenaltyCount

\* (changed copy: the clamped work is truncated, not rounded)
newWorkOfTruncated(oldWork, seconds) ==
  LET den == secondsPerBlock * workFactorInv
      num == oldWork * (den + (seconds - secondsPerBlock))
      hi  == IF num > maxWork * den THEN maxWork * den ELSE num
      lo  == IF hi < minWork * den THEN minWork * den ELSE hi
  IN lo \div den

\* (changed copy: the work factor is applied to targetWork, not to diff)
newWorkOfTarget(oldWork, seconds) ==
  LET den == secondsPerBlock * workFactorInv
      num == oldWork * (den + seconds)
      hi  == IF num > maxWork * den THEN maxWork * den ELSE num
      lo  == IF hi < minWork * den THEN minWork * den ELSE hi
  IN (2 * lo + den) \div (2 * den)

\* Math.round(Math.max(Math.min(oldWork + diff * workFactor, maxWork), minWork))
\* with targetWork = seconds * oldWork / secondsPerBlock and
\* diff = targetWork - oldWork, over the common denominator.
newWorkOf(oldWork, seconds) ==
  LET den == secondsPerBlock * workFactorInv
      num == oldWork * (den + (seconds - secondsPerBlock))
      hi  == IF num > maxWork * den THEN maxWork * den ELSE num
      lo  == IF hi < minWork * den THEN minWork * den ELSE hi
  IN (2 * lo + den) \div (2 * den)

\* BlocksController.submitBlock: the flags, then the parameters are accepted.
submitBlock(r, address, nonce) ==
  /\ req[r].pc = "idle"
  /\ LET started == [Idle EXCEPT !.kind = "submit", !.address = address,
                                 !.nonce = nonce]
     IN req' = [req EXCEPT ![r] =
          IF ~miningEnabled /\ ~stakingEnabled
            THEN [started EXCEPT !.pc = "done", !.result = "mining_disabled"]
            ELSE [started EXCEPT !.pc = "getLastBlock"]]
  /\ UNCHANGED <<store, flags, freeNonceSubmission, websockets, workOverTime>>

\* A legacy address: ten hex characters, valid but not of the v2 form.
LegacyAddress == {"0123456789"}

\* Tenebra.isValidTenebraAddress
isValidTenebraAddress(address, v2Only) ==
  IF v2Only THEN address \in Address ELSE address \in Address \cup LegacyAddress

\* The nonce as the caller gave it: nothing, a string or an array of bytes,
\* of a length; `value` tells the digests of well-formed nonces apart.
NoNonce == [form |-> "undefined", length |-> 0, value |-> 1]

RawNonce ==
  {NoNonce} \cup
  {[form |-> f, length |-> l, value |-> v] :
     f \in {"string", "array"}, l \in {1, nonceMaxSize}, v \in Nonce} \cup
  {[form |-> f, length |-> l, value |-> 1] :
     f \in {"string", "array"}, l \in {0, nonceMaxSize + 1}}

\* (changed copy: an absent parameter is reported as an invalid one)
parameterErrorInvalidOnly(address, rawNonce) ==
  IF address = "" \/ ~isValidTenebraAddress(address, TRUE)
     \/ rawNonce.length < 1 \/ rawNonce.length > nonceMaxSize
    THEN "invalid_parameter" ELSE "none"

\* submitBlock, the checks of its two parameters: !address, the v2 form,
\* !rawNonce (undefined or the empty string; an empty array is not falsy),
\* the length of the nonce
parameterError(address, rawNonce) ==
  IF address = "" THEN "missing_parameter"
  ELSE IF ~isValidTenebraAddress(address, TRUE) THEN "invalid_parameter"
  ELSE IF rawNonce.form = "undefined"
          \/ (rawNonce.form = "string" /\ rawNonce.length = 0)
    THEN "missing_parameter"
  ELSE IF rawNonce.length < 1 \/ rawNonce.length > nonceMaxSize
    THEN "invalid_parameter"
  ELSE "none"

\* BlocksController.submitBlock with its parameters as the caller gave
\* them: the flags, then the checks of the parameters, then as submitBlock.
submitBlockParams(r, address, rawNonce) ==
  IF (miningEnabled \/ stakingEnabled) /\ parameterError(address, rawNonce) # "none"
    THEN /\ req[r].pc = "idle"
         /\ req' = [req EXCEPT ![r] =
              [Idle EXCEPT !.kind = "submit", !.address = address,
                           !.rawNonce = rawNonce,
                           !.pc = "done",
                           !.result = parameterError(address, rawNonce)]]
         /\ UNCHANGED <<store, flags, freeNonceSubmission, websockets, workOverTime>>
    ELSE /\ req[r].pc = "idle"
         /\ LET started == [Idle EXCEPT !.kind = "submit", !.address = address,
                                        !.nonce = rawNonce.value,
                                        !.rawNonce = rawNonce]
            IN req' = [req EXCEPT ![r] =
                 IF ~miningEnabled /\ ~stakingEnabled
                   THEN [started EXCEPT !.pc = "done", !.result = "mining_disabled"]
                   ELSE [started EXCEPT !.pc = "getLastBlock"]]
         /\ UNCHANGED <<store, flags, freeNonceSubmission, websockets, workOverTime>>

submitGetLastBlock(r) ==
  /\ req[r].pc = "getLastBlock"
  /\ req' = [req EXCEPT ![r].last = getLastBlock.id, ![r].pc = "getWork"]
  /\ UNCHANGED <<store, flags, freeNonceSubmission, websockets, workOverTime>>

\* How a submission that was not accepted is rejected.
rejection(hash, difficulty) ==
  IF miningEnabled /\ leading(hash) > difficulty
    THEN "solution_incorrect" ELSE "unselected_validator"

\* submitBlock: the work is read, the hash computed and the proof-of-work
\* side of the condition decided; the validator is read only when that fails
\* and staking is enabled.
submitGetWork(r) ==
  /\ req[r].pc = "getWork"
  /\ LET q == req[r]
         hash == sha256(q.address, q.last, q.nonce)
         got == [q EXCEPT !.difficulty = work, !.hash = hash,
                          !.free = freeNonceSubmission]
     IN req' = [req EXCEPT ![r] =
          IF miningEnabled /\ (leading(hash) <= work \/ freeNonceSubmission)
            THEN [got EXCEPT !.pc = "submit"]
          ELSE IF stakingEnabled THEN [got EXCEPT !.pc = "getValidator"]
          ELSE [got EXCEPT !.pc = "done", !.result = rejection(hash, work)]]
  /\ UNCHANGED <<store, flags, freeNonceSubmission, websockets, workOverTime>>

submitGetValidator(r) ==
  /\ req[r].pc = "getValidator"
  /\ req' = [req EXCEPT ![r] =
       IF req[r].address = validator
         THEN [@ EXCEPT !.validator = validator, !.pc = "submit"]
         ELSE [@ EXCEPT !.validator = validator, !.pc = "done",
                        !.result = rejection(req[r].hash, req[r].difficulty)]]
  /\ UNCHANGED <<store, flags, freeNonceSubmission, websockets, workOverTime>>

\* (changed copy: Blocks.submit goes on whatever the mining flag)
submitRefusesNever(mining) == FALSE

\* Blocks.submit: if (!await tenebra.isMiningEnabled()) throw new Error(...)
submitRefuses(mining) == ~mining

\* Blocks.submit: refuses when mining is disabled; otherwise the DB
\* transaction begins and the last block is read (for its time).
submit(r) ==
  /\ req[r].pc = "submit"
  /\ req' = IF submitRefuses(miningEnabled) THEN Finish(r, "server_error")
            ELSE [req EXCEPT ![r].pc = "getBlockValue"]
  /\ UNCHANGED <<store, flags, freeNonceSubmission, websockets, workOverTime>>

\* Blocks.getBlockValue: the last block, then the count of unpaid names
submitGetBlockValue(r) ==
  /\ req[r].pc = "getBlockValue"
  /\ req' = [req EXCEPT ![r].valueLast = getLastBlock.id,
                        ![r].pc = "getUnpaidNameCount"]
  /\ UNCHANGED <<store, flags, freeNonceSubmission, websockets, workOverTime>>

submitGetUnpaidNameCount(r) ==
  /\ req[r].pc = "getUnpaidNameCount"
  /\ req' = [req EXCEPT ![r].value = getBlockValue(req[r].valueLast),
                        ![r].pc = "retarget"]
  /\ UNCHANGED <<store, flags, freeNonceSubmission, websockets, workOverTime>>

\* Blocks.submit: time = new Date(), oldWork = getWork(), newWork
submitRetarget(r, seconds) ==
  /\ req[r].pc = "retarget"
  /\ req' = [req EXCEPT ![r].oldWork = work, ![r].seconds = seconds,
                        ![r].newWork = newWorkOf(work, seconds),
                        ![r].pc = "findUnpaidNames"]
  /\ UNCHANGED <<store, flags, freeNonceSubmission, websockets, workOverTime>>

\* Blocks.submit: schemas.name.findAll({ where: { unpaid > 0 } })
submitFindUnpaidNames(r) ==
  /\ req[r].pc = "findUnpaidNames"
  /\ req' = [req EXCEPT ![r].unpaidNames = {n \in Name : unpaid[n] > 0},
                        ![r].pc = "create"]
  /\ UNCHANGED <<store, flags, freeNonceSubmission, websockets, workOverTime>>

\* The handlers whose DB transaction holds an uncommitted block row.
InTransaction(r) == req[r].kind = "submit" /\ req[r].pc \in {"getAddress", "credit"}

\* Blocks.submit: schemas.block.create inside the DB transaction (with the
\* mined transaction and the decrements, which wait for the commit).  The
\* insert waits while another transaction holds the same hash uncommitted,
\* and fails on a committed row with the same hash: the transaction is
\* rolled back and submitBlock throws ErrorSolutionDuplicate.  The insert
\* of the mined transaction is queued on the same connection before the
\* rollback, and createTransaction broadcasts its event once it returns;
\* a raising broadcast rejects the Promise.all and rolls back as well.
submitCreate(r) ==
  /\ req[r].pc = "create"
  /\ ~ \E o \in Req \ {r} : InTransaction(o) /\ req[o].hash = req[r].hash
  /\ UNCHANGED workOverTime
  /\ websockets' = broadcastEvent(websockets, "transaction", r)
  /\ IF \E b \in blocks : b.hash = req[r].hash
       THEN /\ req' = Finish(r, "solution_duplicate")
            /\ blockSeq' = blockSeq
       ELSE /\ blockSeq' = blockSeq + 1
            /\ req' = IF websockets.raises THEN Finish(r, "server_error")
                      ELSE [req EXCEPT ![r].id = blockSeq + 1, ![r].pc = "getAddress"]
  /\ UNCHANGED <<addr, unpaid, names, blocks, txs, work, flags, freeNonceSubmission>>

\* Blocks.submit: addresses.getAddress(address), outside the DB transaction
submitGetAddress(r) ==
  /\ req[r].pc = "getAddress"
  /\ req' = [req EXCEPT ![r].tenebraAddress = addr[req[r].address].exists,
                        ![r].pc = "credit"]
  /\ UNCHANGED <<store, flags, freeNonceSubmission, websockets, workOverTime>>

BlockRow(q) == [id |-> q.id, hash |-> q.hash, address |-> q.address,
                difficulty |-> q.oldWork, value |-> q.value]

\* (changed copy: a miner whose row exists gets the totalin but not the balance)
CreditMinerNoBalance(tbl, a, v, existed) ==
  IF existed THEN Increment(tbl, a, 0, v, 0) ELSE AddressCreate(tbl, a, v, v, 0)

\* tenebraAddress.increment / schemas.address.create of the miner's row
CreditMiner(tbl, a, v, existed) ==
  IF existed THEN Increment(tbl, a, v, v, 0) ELSE AddressCreate(tbl, a, v, v, 0)

\* name.decrement({ unpaid: 1 }) on every name of the list read before
DecrementUnpaid(unpaidNames) ==
  [n \in Name |-> IF n \in unpaidNames THEN unpaid[n] - 1 ELSE unpaid[n]]

\* Blocks.submit: the credit of the miner and the commit of the DB
\* transaction: block row, mined transaction, decrements and credit become
\* visible together.  Creating a row that exists by now fails and rolls
\* everything back.
submitCredit(r) ==
  /\ req[r].pc = "credit"
  /\ LET q == req[r] IN
     IF ~q.tenebraAddress /\ AddressCreateFails(addr, q.address)
       THEN /\ req' = Finish(r, "server_error")
            /\ UNCHANGED <<addr, unpaid, blocks, txs>>
       ELSE /\ blocks' = blocks \cup {BlockRow(q)}
            /\ txs' = Append(txs, TransactionRow(q.address, Null, q.value))
            /\ unpaid' = DecrementUnpaid(q.unpaidNames)
            /\ addr' = CreditMiner(addr, q.address, q.value, q.tenebraAddress)
            /\ req' = [req EXCEPT ![r].pc = "setWork"]
  /\ UNCHANGED <<names, blockSeq, work, flags, freeNonceSubmission, websockets, workOverTime>>

\* Blocks.submit after the commit: tenebra.setWork(newWork), then the block
\* event, whose raising makes submit throw
submitSetWork(r) ==
  /\ req[r].pc = "setWork"
  /\ work' = req[r].newWork
  /\ UNCHANGED workOverTime
  /\ websockets' = broadcastEvent(websockets, "block", r)
  /\ req' = Finish(r, IF websockets.raises THEN "server_error" ELSE "ok")
  /\ UNCHANGED <<addr, unpaid, names, blocks, blockSeq, txs, flags, freeNonceSubmission>>

Submission(r) ==
  \/ \E address \in {"a1", "a3"}, nonce \in Nonce : submitBlock(r, address, nonce)
  \/ submitGetLastBlock(r)
  \/ submitGetWork(r)
  \/ submitGetValidator(r)
  \/ submit(r)
  \/ submitGetBlockValue(r)
  \/ submitGetUnpaidNameCount(r)
  \/ \E seconds \in Seconds : submitRetarget(r, seconds)
  \/ submitFindUnpaidNames(r)
  \/ submitCreate(r)
  \/ submitGetAddress(r)
  \/ submitCredit(r)
  \/ submitSetWork(r)

\* debug command "freenonce"
freenonce ==
  /\ freeNonceSubmission' = ~freeNonceSubmission
  /\ UNCHANGED <<store, flags, req, websockets, workOverTime>>

\* A transfer running beside the submissions: a2 pays 1 to a1 or to a3.
SideTransfer(r) ==
  \/ \E to \in {"a1", "a3"} : makeTransaction(r, "a2", to, 1)
  \/ getRecipient(r)
  \/ \E w \in Writes : pushTransactionWrite(r, w)

\* debug command "setwork": tenebra.setWork(parseInt(args[1]))
setwork(newWork) ==
  /\ work' = newWork
  /\ UNCHANGED <<addr, unpaid, names, blocks, blockSeq, txs, flags, freeNonceSubmission, websockets, workOverTime, req>>

\* ------------------------------------------------------- authentication
\* utils.sha256(tenebraAddress + privatekey), taken to be collision free
keyHash(tenebraAddress, privatekey) == <<tenebraAddress, privatekey>>

\* Addresses.verify is called
verify(r, tenebraAddress, privatekey) ==
  /\ req[r].pc = "idle"
  /\ req' = [req EXCEPT ![r] = [Idle EXCEPT !.kind = "verify", !.pc = "verifyGetAddress",
                                            !.address = tenebraAddress,
                                            !.privatekey = privatekey]]
  /\ UNCHANGED <<store, flags, freeNonceSubmission, websockets, workOverTime>>

\* Addresses.verify: address = await Addresses.getAddress(tenebraAddress)
verifyGetAddress(r) ==
  /\ req[r].pc = "verifyGetAddress"
  /\ req' = [req EXCEPT ![r].found = addr[req[r].address], ![r].pc = "verifyAct"]
  /\ UNCHANGED <<store, flags, freeNonceSubmission, websockets, workOverTime>>

\* (changed copy: a locked address authenticates)
authedIgnoringLocked(address, hash) == address.privatekey = hash

\* Addresses.verify: !address.locked && address.privatekey === hash
authedOf(address, hash) == ~address.locked /\ address.privatekey = hash

\* addresses.verify returns to its caller: the login handler and
\* makeTransaction go on, a bare verification is over
returned(q) ==
  IF q.kind = "login" THEN "login"
  ELSE IF q.kind = "transfer" THEN "authed"
  ELSE "done"

\* Addresses.verify: the unseen address is created with the hash, the row
\* without a privatekey is claimed with it, the row with one is compared.
verifyAct(r) ==
  /\ req[r].pc = "verifyAct"
  /\ LET q == req[r]
         a == q.address
         hash == keyHash(a, q.privatekey)
     IN IF ~q.found.exists
          THEN IF AddressCreateFails(addr, a)
                 THEN /\ req' = Finish(r, "server_error")
                      /\ addr' = addr
                 ELSE /\ addr' = [addr EXCEPT ![a] =
                                    [NewRow(0, 0, 0) EXCEPT !.privatekey = hash]]
                      /\ req' = [req EXCEPT ![r].authed = TRUE, ![r].pc = returned(q),
                                            ![r].result = "ok"]
        ELSE IF q.found.privatekey # NoKey
          THEN /\ addr' = addr
               /\ req' = [req EXCEPT ![r].authed = authedOf(q.found, hash),
                                     ![r].pc = returned(q), ![r].result = "ok"]
          ELSE /\ addr' = [addr EXCEPT ![a].privatekey = hash]
               /\ req' = [req EXCEPT ![r].authed = TRUE, ![r].pc = returned(q),
                                     ![r].result = "ok"]
  /\ UNCHANGED <<unpaid, names, blocks, blockSeq, txs, work, flags, freeNonceSubmission, websockets, workOverTime>>

Auth(r) ==
  \/ \E tenebraAddress \in Address, privatekey \in Key :
        verify(r, tenebraAddress, privatekey)
  \/ verifyGetAddress(r)
  \/ verifyAct(r)

\* ------------------------------------------------------ websocket login
\* tenebra.makeV2Address(privatekey), for the keys in use
v2AddressOf(privatekey) == IF privatekey = "k1" THEN "a1" ELSE "a2"

\* login: addresses.verify(ws.req, tenebra.makeV2Address(privatekey), privatekey)
login(r, privatekey) ==
  /\ req[r].pc = "idle"
  /\ req' = [req EXCEPT ![r] = [Idle EXCEPT !.kind = "login", !.pc = "verifyGetAddress",
                                            !.address = v2AddressOf(privatekey),
                                            !.privatekey = privatekey]]
  /\ UNCHANGED <<store, flags, freeNonceSubmission, websockets, workOverTime>>

\* (changed copy: the session is given its address but stays a guest)
loggedInStillGuest(ws, address) == [ws EXCEPT !.auth = address]

\* login, authed: ws.auth = address.address; ws.isGuest = false
loggedIn(ws, address) == [ws EXCEPT !.auth = address, !.isGuest = FALSE]

\* login, not authed: ws.auth = "guest"; ws.isGuest = true
loginFailed(ws) == [ws EXCEPT !.auth = "guest", !.isGuest = TRUE]

\* login after addresses.verify has returned: the session is switched, with
\* no await between the assignments
loginAct(r) ==
  /\ req[r].pc = "login"
  /\ UNCHANGED workOverTime
  /\ websockets' = IF req[r].authed THEN loggedIn(websockets, req[r].address)
                   ELSE loginFailed(websockets)
  /\ req' = [req EXCEPT ![r].pc = "done"]
  /\ UNCHANGED <<store, flags, freeNonceSubmission>>

Login(r) ==
  \/ \E privatekey \in Key : login(r, privatekey)
  \/ verifyGetAddress(r)
  \/ verifyAct(r)
  \/ loginAct(r)

\* ---------------------------------- makeTransaction from the private key
\* The amount as the caller gave it: a number or a string of digits.
RawAmount ==
  {[form |-> "number", n |-> n] : n \in {-1, 0, 1, MaxAmount}}
    \cup {[form |-> "string", n |-> 0]}

\* (changed copy: an amount below 1 passes the validation)
amountErrorNone(amount) == "none"

\* makeTransaction: !amount (the number 0 is falsy, the string "0" is not),
\* then isNaN(amount) || amount < 1 on the truncated integer
amountError(amount) ==
  IF amount.form = "number" /\ amount.n = 0 THEN "missing_parameter"
  ELSE IF amount.n < 1 THEN "invalid_parameter"
  ELSE "none"

\* TransactionsController.makeTransaction: the input validation, then
\* from = makeV2Address(privatekey) and the call of addresses.verify
makeTransactionKey(r, privatekey, to, metadata, amount) ==
  /\ req[r].pc = "idle"
  /\ LET from == v2AddressOf(privatekey)
         started == [Idle EXCEPT !.kind = "transfer", !.from = from,
                                 !.address = from, !.privatekey = privatekey,
                                 !.to = to.address, !.amount = amount.n,
                                 !.rawAmount = amount,
                                 !.target = to, !.metadata = metadata]
     IN req' = [req EXCEPT ![r] =
          IF amountError(amount) # "none"
            THEN [started EXCEPT !.pc = "done", !.result = amountError(amount)]
            ELSE [started EXCEPT !.pc = "verifyGetAddress"]]
  /\ UNCHANGED <<store, flags, freeNonceSubmission, websockets, workOverTime>>

\* makeTransaction after addresses.verify: if (!authed) ...; the balance
\* check on the row verify returned; then the name or the address is paid
makeTransactionAuthed(r) ==
  /\ req[r].pc = "authed"
  /\ LET q == req[r]
     IN req' = [req EXCEPT ![r] =
          IF ~q.authed
            THEN [q EXCEPT !.pc = "done", !.result = "auth_failed"]
          ELSE IF q.found.balance < q.amount
            THEN [q EXCEPT !.pc = "done", !.result = "insufficient_funds"]
          ELSE IF paysName(q.target, q.metadata)
            THEN [q EXCEPT !.pc = "getNameByName", !.result = "none"]
          ELSE [q EXCEPT !.pc = "getRecipient", !.result = "none"]]
  /\ UNCHANGED <<store, flags, freeNonceSubmission, websockets, workOverTime>>

\* What the requests pay: a2, a3 (no row), the name n1, the unknown name n2.
PayTarget ==
  {AddressTarget("a2"), AddressTarget("a3"), NameTarget(Null, "n1"), NameTarget(Null, "n2")}

Pay(r, keys, targets, amounts) ==
  \/ \E privatekey \in keys, to \in targets, amount \in amounts :
       makeTransactionKey(r, privatekey, to, NoMetadata, amount)
  \/ verifyGetAddress(r)
  \/ verifyAct(r)
  \/ makeTransactionAuthed(r)
  \/ getNameByName(r)
  \/ getRecipient(r)
  \/ \E w \in Writes : pushTransactionWrite(r, w)

\* ---------------------------------------------------------------- staking
\* StakingController.deposit: validation, addresses.verify, the balance check
deposit(r, from, amount) ==
  /\ req[r].pc = "idle"
  /\ amount >= 1
  /\ Len(txs) < MaxRows
  /\ LET started == [Idle EXCEPT !.kind = "deposit", !.from = from, !.amount = amount]
     IN req' = [req EXCEPT ![r] =
          IF ~addr[from].exists THEN [started EXCEPT !.pc = "verifyCreate"]
          ELSE IF addr[from].balance < amount
            THEN [started EXCEPT !.pc = "done", !.result = "insufficient_funds"]
          ELSE [started EXCEPT !.pc = "stakingDeposit"]]
  /\ UNCHANGED <<store, flags, freeNonceSubmission, websockets, workOverTime>>

\* (changed copy: the deposit leaves stake_active as it was)
DepositRowKeepsActive(row, amount) ==
  [row EXCEPT !.balance = @ - amount, !.stake = @ + amount]

\* Staking.deposit: balance - amount, stake + amount, stake_active := true
DepositRow(row, amount) ==
  [row EXCEPT !.balance = @ - amount, !.stake = @ + amount, !.stake_active = TRUE]

\* Staking.deposit, atomically, with its transaction from "staking" to sender
stakingDeposit(r) ==
  /\ req[r].pc = "stakingDeposit"
  /\ LET q == req[r]
         newAddr == [addr EXCEPT ![q.from] = DepositRow(addr[q.from], q.amount)]
     IN /\ addr' = newAddr
        /\ txs' = Append(txs, TransactionRow(q.from, "staking", q.amount))
        /\ req' = [req EXCEPT ![r].eff = AddEff(q.eff, addr, newAddr, 1),
                              ![r].found = addr[q.from],
                              ![r].wrote = newAddr[q.from],
                              ![r].pc = "done", ![r].result = "ok"]
  /\ UNCHANGED <<unpaid, names, blocks, blockSeq, work, flags, freeNonceSubmission, websockets, workOverTime>>

\* StakingController.withdraw: validation, addresses.verify, the stake check
withdraw(r, from, amount) ==
  /\ req[r].pc = "idle"
  /\ amount >= 1
  /\ Len(txs) < MaxRows
  /\ LET started == [Idle EXCEPT !.kind = "withdraw", !.from = from, !.amount = amount]
     IN req' = [req EXCEPT ![r] =
          IF ~addr[from].exists THEN [started EXCEPT !.pc = "verifyCreate"]
          ELSE IF addr[from].stake < amount
            THEN [started EXCEPT !.pc = "done", !.result = "insufficient_funds"]
          ELSE [started EXCEPT !.pc = "stakingWithdraw"]]
  /\ UNCHANGED <<store, flags, freeNonceSubmission, websockets, workOverTime>>

\* (changed copy: the withdrawal leaves stake_active as it was)
WithdrawRowKeepsActive(row, amount) ==
  [row EXCEPT !.balance = @ + amount, !.stake = @ - amount]

\* Staking.withdraw: balance + amount, stake - amount,
\* stake_active := (stake - amount) > 0
WithdrawRow(row, amount) ==
  [row EXCEPT !.balance = @ + amount, !.stake = @ - amount,
              !.stake_active = (row.stake - amount > 0)]

\* Staking.withdraw, atomically, with its transaction from sender to "staking"
stakingWithdraw(r) ==
  /\ req[r].pc = "stakingWithdraw"
  /\ LET q == req[r]
         newAddr == [addr EXCEPT ![q.from] = WithdrawRow(addr[q.from], q.amount)]
     IN /\ addr' = newAddr
        /\ txs' = Append(txs, TransactionRow("staking", q.from, q.amount))
        /\ req' = [req EXCEPT ![r].eff = AddEff(q.eff, addr, newAddr, 1),
                              ![r].found = addr[q.from],
                              ![r].wrote = newAddr[q.from],
                              ![r].pc = "done", ![r].result = "ok"]
  /\ UNCHANGED <<unpaid, names, blocks, blockSeq, work, flags, freeNonceSubmission, websockets, workOverTime>>

\* The handler has answered; the next request may come.
nextRequest(r) ==
  /\ req[r].pc = "done"
  /\ req' = [req EXCEPT ![r] = Idle]
  /\ UNCHANGED <<store, flags, freeNonceSubmission, websockets, workOverTime>>

\* EXCLUDE_INACTIVE = { [Op.eq]: 1, [Op.is]: null }: both operators apply to
\* the one column, stake_active = 1 AND stake_active IS NULL.
EXCLUDE_INACTIVE(stake_active) == (stake_active = TRUE) /\ (stake_active \notin BOOLEAN)

\* Staking.getStakeWeights: where stake > 0 and stake_active EXCLUDE_INACTIVE
getStakeWeights ==
  {a \in Address : addr[a].exists /\ addr[a].stake > 0
                     /\ EXCLUDE_INACTIVE(addr[a].stake_active)}

\* Tenebra.selectValidator, run by the interval: the previous validator
selectValidator ==
  /\ boot.pc = "done" /\ boot.tick /\ boot.select = "idle"
  /\ boot' = [boot EXCEPT !.prevValidator = validator,
                          !.select = IF validator # NoAddr THEN "getAddress"
                                     ELSE "getStakeWeights"]
  /\ UNCHANGED <<store, validator, miningEnabled, stakingEnabled,
                 freeNonceSubmission, websockets, workOverTime, req>>

\* selectValidator: prevValidatorAddress = await getAddress(prevValidator)
selectGetAddress ==
  /\ boot.select = "getAddress"
  /\ boot' = [boot EXCEPT !.select = IF addr[boot.prevValidator].exists
                                       THEN "penalize" ELSE "getStakeWeights"]
  /\ UNCHANGED <<store, validator, miningEnabled, stakingEnabled,
                 freeNonceSubmission, websockets, workOverTime, req>>

\* Staking.penalize: staker.decrement({ stake: Math.min(undefined, stake) })
\* (not a number: the UPDATE fails) and staker.update({ stake_active: false })
\* are issued, then the undeclared `amount` of the createTransaction call
\* throws: no transaction, and selectValidator ends with the error.
penalize ==
  /\ boot.select = "penalize"
  /\ addr' = [addr EXCEPT ![boot.prevValidator].stake_active = FALSE]
  /\ boot' = [boot EXCEPT !.select = "idle"]
  /\ UNCHANGED <<unpaid, names, blocks, blockSeq, txs, work, validator,
                 miningEnabled, stakingEnabled, freeNonceSubmission, websockets, workOverTime, req>>

\* selectValidator: the stakers are read and one is drawn by its weight (any
\* of them may be drawn); without stakers the validator is set to ""
selectStakeWeights ==
  /\ boot.select = "getStakeWeights"
  /\ IF getStakeWeights # {}
       THEN validator' \in getStakeWeights
       ELSE validator' = NoAddr
  /\ boot' = [boot EXCEPT !.select = "idle"]
  /\ UNCHANGED <<store, miningEnabled, stakingEnabled, freeNonceSubmission, websockets, workOverTime, req>>

Tick == selectValidator \/ selectGetAddress \/ penalize \/ selectStakeWeights

StakeOp(r) ==
  \/ \E from \in {"a1", "a3"}, amount \in 1..MaxAmount : deposit(r, from, amount)
  \/ \E from \in {"a1", "a3"}, amount \in 1..MaxAmount : withdraw(r, from, amount)
  \/ verifyCreate(r)
  \/ stakingDeposit(r)
  \/ stakingWithdraw(r)
  \/ nextRequest(r)

\* ------------------------------------------------------- name registry
\* Purchase (private_key, name), step 1: validate the name; reject if taken;
\* authenticate; reject on insufficient funds.
registerName(r, sender, name) ==
  /\ req[r].pc = "idle"
  /\ addr[sender].exists
  /\ LET started == [Idle EXCEPT !.kind = "name_purchase", !.from = sender,
                                 !.name = name, !.amount = nameCost]
     IN req' = [req EXCEPT ![r] =
          IF names[name].exists
            THEN [started EXCEPT !.pc = "done", !.result = "name_taken"]
          ELSE IF addr[sender].balance < nameCost
            THEN [started EXCEPT !.pc = "done", !.result = "insufficient_funds"]
          ELSE [started EXCEPT !.pc = "createName"]]
  /\ UNCHANGED <<store, flags, freeNonceSubmission, websockets, workOverTime>>

\* (changed copy: the buyer is debited by one unit less than the name cost)
PurchaseDebitShort(tbl, sender) ==
  [tbl EXCEPT ![sender].balance = @ - (nameCost - 1),
              ![sender].totalout = @ + nameCost]

\* Purchase: debit the sender by name_cost, credit totalout
PurchaseDebit(tbl, sender) ==
  [tbl EXCEPT ![sender].balance = @ - nameCost,
              ![sender].totalout = @ + nameCost]

\* Purchase, step 2, under one DB transaction: debit the sender, insert the
\* name with owner = original_owner = sender and unpaid = name_cost, write a
\* transaction with to = "name", name = <name>.  The name is the unique
\* primary key: the insert of a name that is there by now fails and the DB
\* transaction is rolled back.
createName(r) ==
  /\ req[r].pc = "createName"
  /\ LET q == req[r]
         newAddr == PurchaseDebit(addr, q.from)
     IN IF names[q.name].exists
          THEN /\ req' = Finish(r, "server_error")
               /\ UNCHANGED <<addr, names, unpaid, txs>>
          ELSE /\ addr' = newAddr
               /\ names' = [names EXCEPT ![q.name] = NameRow(q.from)]
               /\ unpaid' = [unpaid EXCEPT ![q.name] = nameCost]
               /\ txs' = Append(txs, TransactionRowOf("name", q.from, nameCost,
                                                      q.name, Null, Null))
               /\ req' = [req EXCEPT ![r].pc = "done", ![r].result = "ok",
                                     ![r].eff = AddEff(q.eff, addr, newAddr, 1)]
  /\ UNCHANGED <<blocks, blockSeq, work, flags, freeNonceSubmission, websockets, workOverTime>>

\* (changed copy: the transfer is not refused to a sender who is not the owner)
mayChangeAnyone(row, sender) == TRUE

\* require sender == name.owner
mayChange(row, sender) == row.owner = sender

\* Transfer (private_key, name, to): require sender = name.owner; set
\* owner := to, updated := now; write a transaction row (from = sender,
\* to = to, name = <name>) with value = 0.
transferName(r, sender, name, to) ==
  /\ req[r].pc = "idle"
  /\ addr[sender].exists
  /\ LET started == [Idle EXCEPT !.kind = "name_transfer", !.from = sender,
                                 !.to = to, !.name = name, !.pc = "done"]
     IN IF ~names[name].exists
          THEN /\ req' = [req EXCEPT ![r] = [started EXCEPT !.result = "name_not_found"]]
               /\ UNCHANGED <<names, txs>>
        ELSE IF ~mayChange(names[name], sender)
          THEN /\ req' = [req EXCEPT ![r] = [started EXCEPT !.result = "not_name_owner"]]
               /\ UNCHANGED <<names, txs>>
        ELSE /\ names' = [names EXCEPT ![name].owner = to, ![name].updated = @ + 1]
             /\ txs' = Append(txs, TransactionRowOf(to, sender, 0, name, Null, Null))
             /\ req' = [req EXCEPT ![r] = [started EXCEPT !.result = "ok",
                                          !.eff = AddEff(ZeroEff, addr, addr, 1)]]
  /\ UNCHANGED <<addr, unpaid, blocks, blockSeq, work, flags, freeNonceSubmission, websockets, workOverTime>>

\* Update-A (private_key, name, a): require sender = name.owner; set a := a,
\* updated := now; write a transaction row (from = sender, to = "a",
\* name = <name>, op = a). No value is given for the row: any of 0 and 1.
updateName(r, sender, name, value) ==
  /\ req[r].pc = "idle"
  /\ addr[sender].exists
  /\ LET started == [Idle EXCEPT !.kind = "name_a_record", !.from = sender,
                                 !.name = name, !.pc = "done"]
     IN IF ~names[name].exists
          THEN /\ req' = [req EXCEPT ![r] = [started EXCEPT !.result = "name_not_found"]]
               /\ UNCHANGED <<names, txs>>
        ELSE IF ~mayChange(names[name], sender)
          THEN /\ req' = [req EXCEPT ![r] = [started EXCEPT !.result = "not_name_owner"]]
               /\ UNCHANGED <<names, txs>>
        ELSE /\ names' = [names EXCEPT ![name].a = "example.com", ![name].updated = @ + 1]
             /\ txs' = Append(txs, TransactionRowOf("a", sender, value, name, Null, Null))
             /\ req' = [req EXCEPT ![r] = [started EXCEPT !.result = "ok",
                                          !.eff = AddEff(ZeroEff, addr, addr, 1)]]
  /\ UNCHANGED <<addr, unpaid, blocks, blockSeq, work, flags, freeNonceSubmission, websockets, workOverTime>>

NameOp(r) ==
  \/ \E sender \in {"a1", "a2"}, name \in Name : registerName(r, sender, name)
  \/ createName(r)
  \/ \E sender \in {"a1", "a2"}, name \in Name, to \in Address :
       transferName(r, sender, name, to)
  \/ \E sender \in {"a1", "a2"}, name \in Name, value \in {0, 1} :
       updateName(r, sender, name, value)

\* ------------------------------------------------- transaction types
\* JavaScript's !x for a column value: null and the empty string are falsy.
Falsy(x) == x = Null \/ x = ""

\* (changed copy: the name rules are tried before the staking rule)
identifyTransactionTypeNameFirst(transaction) ==
  IF DOMAIN transaction = {} THEN "unknown"
  ELSE IF Falsy(transaction.from) THEN "mined"
  ELSE IF ~Falsy(transaction.name)
    THEN IF transaction.to = "name" THEN "name_purchase"
         ELSE IF transaction.to = "a" THEN "name_a_record"
         ELSE "name_transfer"
  ELSE IF transaction.from = "staking" \/ transaction.to = "staking" THEN "staking"
  ELSE "transfer"

\* Transactions.identifyTransactionType; a null transaction is the record
\* without fields
identifyTransactionType(transaction) ==
  IF DOMAIN transaction = {} THEN "unknown"
  ELSE IF Falsy(transaction.from) THEN "mined"
  ELSE IF transaction.from = "staking" \/ transaction.to = "staking" THEN "staking"
  ELSE IF ~Falsy(transaction.name)
    THEN IF transaction.to = "name" THEN "name_purchase"
         ELSE IF transaction.to = "a" THEN "name_a_record"
         ELSE "name_transfer"
  ELSE "transfer"

\* Transactions.transactionToJSON of the stored row id: its type
transactionToJSON(r, id) ==
  /\ req[r].pc = "idle"
  /\ req' = [req EXCEPT ![r] =
       [Idle EXCEPT !.kind = "json", !.pc = "done", !.id = id,
                    !.result = identifyTransactionType(txs[id])]]
  /\ UNCHANGED <<store, flags, freeNonceSubmission, websockets, workOverTime>>

\* ------------------------------------------------------------ start-up
\* Tenebra.init: MINING_ENABLED / STAKING_ENABLED = "true" set the keys
initEnv ==
  /\ boot.pc = "env"
  /\ miningEnabled' = (boot.envMining \/ miningEnabled)
  /\ stakingEnabled' = (boot.envStaking \/ stakingEnabled)
  /\ boot' = [boot EXCEPT !.miningExists = boot.envMining \/ @,
                          !.stakingExists = boot.envStaking \/ @,
                          !.pc = "exists"]
  /\ UNCHANGED <<store, validator, freeNonceSubmission, websockets, workOverTime, req>>

\* Tenebra.init: a key that does not exist is set to "false"
initExists ==
  /\ boot.pc = "exists"
  /\ miningEnabled' = (boot.miningExists /\ miningEnabled)
  /\ stakingEnabled' = (boot.stakingExists /\ stakingEnabled)
  /\ boot' = [boot EXCEPT !.miningExists = TRUE, !.stakingExists = TRUE,
                          !.pc = "flags"]
  /\ UNCHANGED <<store, validator, freeNonceSubmission, websockets, workOverTime, req>>

\* (changed copy: staking is left as it was stored)
forcedStakingKept(mining, staking) == staking

\* Tenebra.init: if (miningEnabled) { if (stakingEnabled) stakingEnabled = false }
forcedStaking(mining, staking) == IF mining THEN FALSE ELSE staking

\* Tenebra.init: the two flags are read, staking is forced off under mining
initFlags ==
  /\ boot.pc = "flags"
  /\ stakingEnabled' = forcedStaking(miningEnabled, stakingEnabled)
  /\ boot' = [boot EXCEPT !.mining = miningEnabled,
                          !.staking = forcedStaking(miningEnabled, stakingEnabled),
                          !.pc = "genesis"]
  /\ UNCHANGED <<store, validator, miningEnabled, freeNonceSubmission, websockets, workOverTime, req>>

\* Tenebra.genGenesis
GenesisRow(id) == [id |-> id, hash |-> <<"0000000000", 0, 0>>,
                   address |-> "0000000000", difficulty |-> maxWork,
                   value |-> defaultBlockValue]

\* (changed copy: the block is created only when both checks say it is missing)
genesisMissingBoth(lastBlock, genned) == ~lastBlock /\ ~genned

\* genGenesis: (!await checkGenesisBlockStatus()) || (!await r.exists("genesis-genned"))
genesisMissing(lastBlock, genned) == ~lastBlock \/ ~genned

\* Tenebra.init: GEN_GENESIS = "true" calls genGenesis.  The hash of a block
\* is unique: creating the genesis row beside a row that holds its hash
\* fails, genGenesis rejects and Tenebra.init with it.
initGenesis ==
  /\ boot.pc = "genesis"
  /\ IF boot.envGenesis /\ genesisMissing(blocks # {}, boot.genesisGenned)
       THEN IF \E b \in blocks : b.hash = GenesisRow(0).hash
              THEN /\ boot' = [boot EXCEPT !.pc = "failed"]
                   /\ UNCHANGED <<blocks, blockSeq>>
              ELSE /\ blocks' = blocks \cup {GenesisRow(blockSeq + 1)}
                   /\ blockSeq' = blockSeq + 1
                   /\ boot' = [boot EXCEPT !.genesisGenned = TRUE, !.pc = "work"]
       ELSE /\ boot' = [boot EXCEPT !.pc = "work"]
            /\ UNCHANGED <<blocks, blockSeq>>
  /\ UNCHANGED <<addr, unpaid, names, txs, work, validator, miningEnabled,
                 stakingEnabled, freeNonceSubmission, websockets, workOverTime, req>>

\* (changed copy: the key is set whether or not it exists)
initialisedAlways(exists, stored, default) == default

\* Tenebra.init: if (!await r.exists(key)) the key is set to its default
initialised(exists, stored, default) == IF exists THEN stored ELSE default

\* Tenebra.init: the work is initialised to the maximum work
initWork ==
  /\ boot.pc = "work"
  /\ work' = initialised(boot.workExists, work, maxWork)
  /\ boot' = [boot EXCEPT !.workExists = TRUE, !.pc = "validator"]
  /\ UNCHANGED <<addr, unpaid, names, blocks, blockSeq, txs, validator, miningEnabled,
                 stakingEnabled, freeNonceSubmission, websockets, workOverTime, req>>

\* Tenebra.init: the validator is initialised to ""
initValidator ==
  /\ boot.pc = "validator"
  /\ validator' = initialised(boot.validatorExists, validator, NoAddr)
  /\ boot' = [boot EXCEPT !.validatorExists = TRUE, !.pc = "schedule"]
  /\ UNCHANGED <<store, miningEnabled, stakingEnabled, freeNonceSubmission, websockets, workOverTime, req>>

\* Tenebra.init: if (stakingEnabled) setInterval(Tenebra.selectValidator, ...)
initSchedule ==
  /\ boot.pc = "schedule"
  /\ boot' = [boot EXCEPT !.tick = boot.staking, !.pc = "done"]
  /\ UNCHANGED <<store, validator, miningEnabled, stakingEnabled,
                 freeNonceSubmission, websockets, workOverTime, req>>

\* ------------------------------------------------------ work over time
\* the fast store's list commands on a list kept head first
lpush(list, value) == <<value>> \o list

ltrim(list, start, stop) ==
  SubSeq(list, start + 1, IF stop + 1 < Len(list) THEN stop + 1 ELSE Len(list))

lrange(list, start, stop) ==
  SubSeq(list, start + 1, IF stop + 1 < Len(list) THEN stop + 1 ELSE Len(list))

reverse(list) == [i \in 1..Len(list) |-> list[Len(list) + 1 - i]]

\* An entry of the list: the work sampled; `at` numbers the samples in the
\* order they were taken (bookkeeping of the model).
Sample(w, at) == [work |-> w, at |-> at]

\* workOverTimeInterval, first command: lpush("work-over-time", getWork())
samplerPush ==
  /\ boot.pc = "done" /\ boot.sampler = "idle"
  /\ boot.minute < boot.started + MaxSamples
  /\ workOverTime' = lpush(workOverTime, Sample(work, boot.minute + 1))
  /\ boot' = [boot EXCEPT !.sampler = "pushed", !.minute = @ + 1]
  /\ UNCHANGED <<store, validator, miningEnabled, stakingEnabled,
                 freeNonceSubmission, websockets, req>>

\* workOverTimeInterval, second command: ltrim("work-over-time", 0, 1440)
samplerTrim ==
  /\ boot.pc = "done" /\ boot.sampler = "pushed"
  /\ workOverTime' = ltrim(workOverTime, 0, workOverTimeStop)
  /\ boot' = [boot EXCEPT !.sampler = "idle"]
  /\ UNCHANGED <<store, validator, miningEnabled, stakingEnabled,
                 freeNonceSubmission, websockets, req>>

\* Tenebra.getWorkOverTime: lrange(0, 1440), parseInt of each, reversed
getWorkOverTime == reverse(lrange(workOverTime, 0, workOverTimeStop))

\* ----------------------------------------------------- specifications
InitLedger == InitStore(0, MaxUnpaid) /\ InitFlags("mining")

NextLedger == \E r \in Req : Transfer(r)

SpecLedger == InitLedger /\ [][NextLedger]_vars

\* The block engine: two submissions, the second handler may instead run a
\* transfer; the node runs in any of the three modes Tenebra.init leaves.
Init ==
  \E mode \in {"mining", "staking", "none"}, pen \in {0, 1}, un \in 0..MaxUnpaid :
     InitStore(pen, un) /\ InitFlags(mode)

Next ==
  \/ \E r \in Req : Submission(r)
  \/ SideTransfer("r2")
  \/ freenonce

Spec == Init /\ [][Next]_vars

\* One submission beside the operator's debug console setting the work.
NextWork ==
  \/ Submission("r1")
  \/ \E newWork \in DebugWork : setwork(newWork)

SpecWork == Init /\ [][NextWork]_vars

\* Start-up: the process environment and whatever an earlier run left in the
\* fast store and in the blocks table.
InitBoot ==
  /\ \E em, es, eg, me, se, we, ve, gg \in BOOLEAN :
       boot = [pc |-> "env", envMining |-> em, envStaking |-> es, envGenesis |-> eg,
               miningExists |-> me, stakingExists |-> se, workExists |-> we,
               validatorExists |-> ve, genesisGenned |-> gg,
               mining |-> FALSE, staking |-> FALSE, tick |-> FALSE,
               select |-> "idle", prevValidator |-> NoAddr]
  /\ miningEnabled \in BOOLEAN /\ stakingEnabled \in BOOLEAN
  /\ boot.miningExists \/ ~miningEnabled
  /\ boot.stakingExists \/ ~stakingEnabled
  /\ work = (IF boot.workExists THEN maxWork ELSE 0)
  /\ validator \in (IF boot.validatorExists THEN {NoAddr, "a1"} ELSE {NoAddr})
  /\ blocks \in {{}, {InitBlock}}
  /\ blockSeq = (IF blocks = {} THEN 0 ELSE InitBlock.id)
  /\ addr = InitAddr(0)
  /\ unpaid = [n \in Name |-> 0]
  /\ names = [n \in Name |-> NameRow("a1")]
  /\ txs = <<>>
  /\ freeNonceSubmission = FALSE
  /\ websockets = Websockets(FALSE)
  /\ workOverTime = <<>>
  /\ req = [r \in Req |-> Idle]

NextBoot ==
  \/ initEnv \/ initExists \/ initFlags \/ initGenesis
  \/ initWork \/ initValidator \/ initSchedule

SpecBoot == InitBoot /\ [][NextBoot]_vars

\* Logins: a1 has a privatekey and may be locked, a2 may have none yet, a3
\* has no row.
InitAuth ==
  /\ InitTables(MaxUnpaid) /\ InitFlags("mining")
  /\ \E locked \in BOOLEAN, k \in {NoKey, keyHash("a2", "k1")} :
       addr = [InitAddr(0) EXCEPT !["a1"].privatekey = keyHash("a1", "k1"),
                                  !["a1"].locked = locked,
                                  !["a2"].privatekey = k]

NextAuth == \E r \in Req : Auth(r)

SpecAuth == InitAuth /\ [][NextAuth]_vars

\* Payments to names: n1 belongs to a2 or to a3 (which may have no row),
\* n2 is not registered.
InitNames ==
  /\ addr = InitAddr(0) /\ InitFlags("mining")
  /\ \E owner \in {"a2", "a3"} :
       names = [n \in Name |-> IF n = "n1" THEN NameRow(owner) ELSE NoNameRow]
  /\ unpaid = [n \in Name |-> 0]
  /\ blocks = {InitBlock} /\ blockSeq = InitBlock.id
  /\ txs = <<>> /\ work = maxWork /\ freeNonceSubmission = FALSE
  /\ websockets = Websockets(FALSE)
  /\ workOverTime = <<>>
  /\ req = [r \in Req |-> Idle]

NextNames == \E r \in Req : TransferTo(r)

SpecNames == InitNames /\ [][NextNames]_vars

\* Staking: a node under staking whose store may hold a validator, with or
\* without a row in the addresses table.
InitStaking ==
  /\ InitTables(0) /\ addr = InitAddr(0)
  /\ \E v \in {NoAddr, "a1", "a3"} :
       /\ validator = v /\ miningEnabled = FALSE /\ stakingEnabled = TRUE
       /\ boot = [Booted(TRUE) EXCEPT !.staking = TRUE]

NextStaking == (\E r \in Req : StakeOp(r)) \/ Tick

SpecStaking == InitStaking /\ [][NextStaking]_vars

\* ---- every writer of the transactions table, two handlers ---------------
\* a1 can afford a name; n1 is a1's, n2 is not registered; blocks are mined
\* or, with staking, submitted by the validator.
InitRows ==
  /\ addr = [InitAddr(0) EXCEPT !["a1"].balance = nameCost + InitBalance,
                                !["a1"].totalin = nameCost + InitBalance]
  /\ names = [n \in Name |-> IF n = "n1" THEN NameRow("a1") ELSE NoNameRow]
  /\ unpaid = [n \in Name |-> 0]
  /\ blocks = {InitBlock}
  /\ blockSeq = InitBlock.id
  /\ txs = <<>>
  /\ work = maxWork
  /\ freeNonceSubmission = FALSE
  /\ websockets = Websockets(FALSE)
  /\ workOverTime = <<>>
  /\ req = [r \in Req |-> Idle]
  /\ \E mode \in {"mining", "staking"} : InitFlags(mode)

RowsOp(r) ==
  \/ NameOp(r)
  \/ \E to \in {"a2", "a3"}, amount \in 0..1 :
       makeTransactionTo(r, "a1", AddressTarget(to), NoMetadata, amount)
  \/ getRecipient(r)
  \/ \E w \in Writes : pushTransactionWrite(r, w)
  \/ \E amount \in 0..1 : deposit(r, "a1", amount)
  \/ \E amount \in 0..1 : withdraw(r, "a1", amount)
  \/ stakingDeposit(r)
  \/ stakingWithdraw(r)

NextRows == (\E r \in Req : RowsOp(r)) \/ Submission("r1")

SpecRows == InitRows /\ [][NextRows]_vars

\* setInterval keeps calling selectValidator, and each of its awaited calls
\* returns: the tick is never postponed for ever.
SpecStakingFair == SpecStaking /\ WF_vars(Tick)

\* ---- two login messages on one session -----------------------------------
NextLogin == \E r \in Req : Login(r)

SpecLogin == InitAuth /\ [][NextLogin]_vars

\* ---- one handler; the broadcast works or raises --------------------------
InitBroadcast ==
  /\ addr = InitAddr(0)
  /\ InitData(0)
  /\ \E mode \in {"mining", "staking"} : InitFlags(mode)
  /\ \E raises \in BOOLEAN : websockets = Websockets(raises)
  /\ workOverTime = <<>>

NextBroadcast == Transfer("r1") \/ Submission("r1")

SpecBroadcast == InitBroadcast /\ [][NextBroadcast]_vars

\* ---- a validator's epoch: a1 has staked 1; submissions and the tick ------
InitEpoch ==
  /\ addr = [InitAddr(0) EXCEPT !["a1"] = DepositRow(@, 1)]
  /\ InitTables(0)
  /\ \/ InitFlags("mining")
     \/ \E v \in {"a1", "a3"} :
          /\ validator = v /\ miningEnabled = FALSE /\ stakingEnabled = TRUE
          /\ boot = [Booted(TRUE) EXCEPT !.staking = TRUE]

NextEpoch == Submission("r1") \/ Tick

SpecEpoch == InitEpoch /\ [][NextEpoch]_vars

\* ---- the type of any one row the transactions table can hold -----------
\* from: null (mined), an address, "staking"; to: an address, "staking",
\* "name", "a", "penalty"; name: null or a name
FromValues == {Null, "a1", "a2", "staking"}

ToValues == {"a1", "a2", "staking", "name", "a", "penalty"}

InitTypes ==
  /\ addr = InitAddr(0)
  /\ names = [n \in Name |-> NameRow(IF n = "n1" THEN "a1" ELSE "a2")]
  /\ unpaid = [n \in Name |-> 0]
  /\ blocks = {InitBlock}
  /\ blockSeq = InitBlock.id
  /\ work = maxWork
  /\ freeNonceSubmission = FALSE
  /\ websockets = Websockets(FALSE)
  /\ workOverTime = <<>>
  /\ req = [r \in Req |-> Idle]
  /\ InitFlags("mining")
  /\ \E from \in FromValues, to \in ToValues, name \in {Null} \cup Name :
       txs = <<TransactionRowOf(to, from, 1, Null, Null, Null),
               TransactionRowOf(to, from, 1, name, Null, Null)>>

NextTypes == \E r \in Req, id \in 1..Len(txs) : transactionToJSON(r, id)

SpecTypes == InitTypes /\ [][NextTypes]_vars


\* ================================================================ claims
Done(r, kind, res) ==
  req[r].kind = kind /\ req[r].pc = "done" /\ req[r].result = res

\* What a transfer of v from f to t is to do to address a.
TransferDelta(a, f, t, v) ==
  [bal  |-> (IF a = t THEN v ELSE 0) - (IF a = f THEN v ELSE 0),
   tin  |-> IF a = t THEN v ELSE 0,
   tout |-> IF a = f THEN v ELSE 0]

EffAt(e, a) == [bal |-> e.bal[a], tin |-> e.tin[a], tout |-> e.tout[a]]

\* Every handler is idle, or finished as a successful transfer or as a
\* rejection that wrote nothing.
LedgerQuiet ==
  \A r \in Req : \/ req[r].pc = "idle"
                 \/ Done(r, "transfer", "ok")
                 \/ Done(r, "transfer", "insufficient_funds")

SumOk(a) ==
  LET d(r) == IF Done(r, "transfer", "ok")
                THEN TransferDelta(a, req[r].from, req[r].to, req[r].amount)
                ELSE [bal |-> 0, tin |-> 0, tout |-> 0]
  IN [bal  |-> d("r1").bal + d("r2").bal,
      tin  |-> d("r1").tin + d("r2").tin,
      tout |-> d("r1").tout + d("r2").tout]

\* C1: a successful transfer of v from A to a different B has taken exactly v
\* from A.balance, added v to A.totalout, added v to B.balance and B.totalin
\* (B's row created with balance = totalin = v when it was missing), has
\* written exactly one transaction row (from A, to B, value v) and has changed
\* no other address; and once all handlers have ended successfully the
\* addresses table is the initial one plus the deltas of the transfers.
C1_TransferConservation ==
  /\ \A r \in Req :
       (Done(r, "transfer", "ok") /\ req[r].from # req[r].to) =>
          LET q == req[r] IN
          /\ \A a \in Address :
               EffAt(q.eff, a) = TransferDelta(a, q.from, q.to, q.amount)
          /\ q.eff.rows = 1
          /\ \E i \in 1..Len(txs) : txs[i] = TransactionRow(q.to, q.from, q.amount)
          /\ addr[q.to].exists
  /\ LedgerQuiet =>
       \A a \in Address :
          /\ addr[a].balance  = InitAddr(0)[a].balance  + SumOk(a).bal
          /\ addr[a].totalin  = InitAddr(0)[a].totalin  + SumOk(a).tin
          /\ addr[a].totalout = InitAddr(0)[a].totalout + SumOk(a).tout

\* C1 witness: two successful transfers to the same recipient have ended, the
\* first of which created the recipient's row.
C1_Witness ==
  /\ Done("r1", "transfer", "ok") /\ Done("r2", "transfer", "ok")
  /\ req["r1"].to = "a3" /\ req["r2"].to = "a3"
  /\ ~req["r1"].recipient /\ req["r2"].recipient
  /\ req["r1"].from # req["r2"].from

\* C2: every address has balance >= 0, stake >= 0 and penalty >= 0.
C2_NonNegative ==
  \A a \in Address :
    addr[a].balance >= 0 /\ addr[a].stake >= 0 /\ addr[a].penalty >= 0

\* C3: a pushTransaction one of whose writes failed leaves nothing behind:
\* the sender is not debited, totalout is not increased, no transaction row
\* is written and the recipient is not credited.
C3_AllOrNothing ==
  \A r \in Req :
    (req[r].kind = "transfer" /\ req[r].pc = "done" /\ req[r].failed) =>
       req[r].eff = ZeroEff

\* ---------------------------------------------------------- block claims
Submitted(r) == req[r].kind = "submit" /\ req[r].pc = "done"

\* The acceptance condition of submit_block, on what the handler read.
Gate(q) ==
  \/ miningEnabled /\ (leading(q.hash) <= q.difficulty \/ q.free)
  \/ stakingEnabled /\ q.address = q.validator

Mined == blocks \ {InitBlock}

\* The step of handler r that commits its block.
Commits(r) == req[r].pc = "credit" /\ req'[r].pc = "setWork"

RECURSIVE SumValue(_)
SumValue(S) ==
  IF S = {} THEN 0
  ELSE LET b == CHOOSE x \in S : TRUE IN b.value + SumValue(S \ {b})

\* C4: a submission with a valid address and nonce commits a block exactly
\* when mining is enabled and (leading <= work or freeNonceSubmission), or
\* staking is enabled and the address is the current validator (a submission
\* beaten to its hash aside).
C4_CommitsIffAccepted ==
  \A r \in Req :
    (Submitted(r) /\ req[r].result \notin {"mining_disabled", "solution_duplicate"}) =>
       ((req[r].result = "ok") <=> Gate(req[r]))

\* C5: a block committed under proof of work with freeNonceSubmission off
\* has leading(hash) <= the difficulty stored in its row.
C5_StoredDifficulty ==
  \A r \in Req :
    (req[r].kind = "submit" /\ req[r].result = "ok" /\ ~req[r].free) =>
       \E b \in Mined : /\ b.hash = req[r].hash
                        /\ leading(b.hash) <= b.difficulty

\* C6: of two accepted submissions carrying the same hash exactly one commits
\* and the other fails with solution_duplicate; block hashes are pairwise
\* distinct, and a losing submission leaves no mined transaction behind.
C6_SameHashExactlyOne ==
  /\ \A b, c \in blocks : b.hash = c.hash => b = c
  /\ Cardinality({i \in 1..Len(txs) : txs[i].from = Null}) = Cardinality(Mined)
  /\ \A r, o \in Req :
       (r # o /\ Submitted(r) /\ Submitted(o) /\ req[r].hash # <<>>
          /\ req[r].hash = req[o].hash /\ Gate(req[r]) /\ Gate(req[o])) =>
            {req[r].result, req[o].result} = {"ok", "solution_duplicate"}

\* C7: the chain never holds two blocks derived from the same predecessor.
C7_OneWriterPerHeight ==
  \A b, c \in blocks : b.hash[2] = c.hash[2] => b = c

\* C8: the value of a submitted block is base_block_value(last.id) + the
\* number of names with unpaid > 0 + the number of addresses with
\* penalty > 0, at the time the handler computes it.
C8_BlockValue ==
  [][\A r \in Req :
       (req[r].pc = "getUnpaidNameCount" /\ req'[r].pc = "retarget") =>
          req'[r].value = detailedBlockValue(req[r].valueLast)]_vars

\* C9: every committed block of value v by address a has exactly one mined
\* transaction (from null, to a, value v), and a.balance and a.totalin hold
\* exactly the mined values on top of the initial row and of what the
\* transfer running beside the submissions has written; a's row exists, and
\* totalout is touched by the transfer alone.
C9_MinedCredit ==
  /\ \A a \in Address : \A v \in {b.value : b \in Mined} :
       Cardinality({i \in 1..Len(txs) : txs[i] = TransactionRow(a, Null, v)})
         = Cardinality({b \in Mined : b.address = a /\ b.value = v})
  /\ \A a \in Address :
       LET mined == SumValue({b \in Mined : b.address = a})
           first == [n \in Address |-> IF n = "a3" THEN 0 ELSE InitBalance]
           t == req["r2"].eff
       IN /\ addr[a].balance  = first[a] + mined + t.bal[a]
          /\ addr[a].totalin  = first[a] + mined + t.tin[a]
          /\ addr[a].totalout = t.tout[a]
          /\ (mined > 0 => addr[a].exists)

\* C9 witness: a3, which had no row, has mined a block and has been paid by
\* the transfer as well.
C9_Witness ==
  /\ \E b \in Mined : b.address = "a3" /\ addr["a3"].balance = b.value + 1
  /\ req["r2"].kind = "transfer" /\ req["r2"].eff.bal["a3"] = 1
  /\ addr["a3"].exists

\* C10: the commit of a block decreases unpaid by exactly 1 on every name
\* that had unpaid > 0 and leaves every name with unpaid = 0 unchanged.
C10_UnpaidDecrement ==
  [][\A r \in Req :
       Commits(r) =>
          \A n \in Name :
             unpaid'[n] = IF unpaid[n] > 0 THEN unpaid[n] - 1 ELSE unpaid[n]]_vars

\* C11: every name has unpaid >= 0 in every reachable state, under any
\* interleaving of submissions that read the list of unpaid names and then
\* decrement them (the name bonus of the next block is getUnpaidNameCount,
\* the count of the names with unpaid > 0).
C11_UnpaidNonNegative == \A n \in Name : unpaid[n] >= 0

\* ----------------------------------------------------------- work claims
\* clamp(round(w + (seconds * w / seconds_per_block - w) * work_factor),
\* min_work, max_work): rounded (halves up) first, clamped afterwards.
RetargetFormula(w, seconds) ==
  LET den == secondsPerBlock * workFactorInv
      num == w * (den + (seconds - secondsPerBlock))
      rounded == (2 * num + den) \div (2 * den)
  IN IF rounded > maxWork THEN maxWork
     ELSE IF rounded < minWork THEN minWork ELSE rounded

\* The step of handler r that stores the new work.
SetsWork(r) == req[r].pc = "setWork" /\ req'[r].pc = "done"

\* C12: the work a committed block stores is
\* clamp(round(w + (seconds * w / seconds_per_block - w) * work_factor)),
\* w being the work the block was submitted under (the difficulty of its
\* row); the current work is within [min_work, max_work] in every state.
C12_Retarget ==
  /\ [](minWork <= work /\ work <= maxWork)
  /\ [][\A r \in Req :
          SetsWork(r) =>
            /\ work' = RetargetFormula(req[r].oldWork, req[r].seconds)
            /\ \E b \in blocks : b.hash = req[r].hash
                                 /\ b.difficulty = req[r].oldWork]_vars

\* C12 witness: a block submitted right after the last one has lowered the
\* work, and a later block, two block times after it, has raised the work
\* again, to a value that had to be rounded.
C12_Witness ==
  /\ Done("r1", "submit", "ok") /\ Done("r2", "submit", "ok")
  /\ req["r1"].oldWork = maxWork /\ req["r1"].seconds = 0
  /\ req["r2"].oldWork = req["r1"].newWork
  /\ req["r2"].seconds = 2 * secondsPerBlock
  /\ work = req["r2"].newWork /\ work > req["r2"].oldWork /\ work < maxWork

\* The step of handler r that retargets the work.
Retargets(r) == req[r].pc = "retarget" /\ req'[r].pc = "findUnpaidNames"

\* C13 (as stated): a block accepted exactly seconds_per_block seconds after
\* the last one leaves the work as it was, for every value the current work
\* can hold.
C13_IdempotentAnyWork ==
  [][\A r \in Req :
       (Retargets(r) /\ req'[r].seconds = secondsPerBlock) =>
          req'[r].newWork = work]_vars

\* C13 (amended): a block accepted exactly seconds_per_block seconds after the
\* last one leaves the work as it was, whenever the work before the block is
\* within [min_work, max_work]; otherwise the new work is the nearer limit.
C13_IdempotentInRange ==
  [][\A r \in Req :
       (Retargets(r) /\ req'[r].seconds = secondsPerBlock) =>
          req'[r].newWork = (IF work < minWork THEN minWork
                             ELSE IF work > maxWork THEN maxWork ELSE work)]_vars

\* C13 witness: a block submitted under a work the console had set inside the
\* range, exactly seconds_per_block seconds after the last one, has kept it.
C13_Witness ==
  /\ Done("r1", "submit", "ok")
  /\ req["r1"].seconds = secondsPerBlock
  /\ req["r1"].oldWork \in DebugWork
  /\ req["r1"].oldWork > minWork /\ req["r1"].oldWork < maxWork
  /\ req["r1"].newWork = req["r1"].oldWork /\ work = req["r1"].oldWork

\* ------------------------------------------------------- start-up claims
\* C14: once init has completed, whatever the environment flags and the
\* stored keys were, mining-enabled and staking-enabled are not both true,
\* and the validator tick is scheduled only if staking is enabled and mining
\* is not.
C14_MutuallyExclusive ==
  boot.pc = "done" =>
    /\ ~(miningEnabled /\ stakingEnabled)
    /\ boot.tick => (stakingEnabled /\ ~miningEnabled)

\* C14 witness: init has completed with mining enabled by the environment
\* over a store that had staking enabled, and has turned staking off.
C14_Witness ==
  /\ boot.pc = "done" /\ boot.envMining /\ boot.envStaking
  /\ miningEnabled /\ ~stakingEnabled /\ ~boot.tick

\* -------------------------------------------------- authentication claims
\* The step of handler r that ends Addresses.verify.
VerifyActs(r) == req[r].pc = "verifyAct" /\ req'[r].pc = "done"

\* C15: verify(address, privatekey) with h the hash of address and key, on
\* the row it found: no row -> the row is created with balance = totalin =
\* totalout = 0 and privatekey h, authed; a row without privatekey -> the
\* privatekey is set to h and nothing else, authed; a row with a privatekey
\* -> authed = (not locked and privatekey = h) and the row is unchanged.  No
\* other row changes.
C15_Verify ==
  [][\A r \in Req :
       (VerifyActs(r) /\ req[r].found = addr[req[r].address]) =>
          LET a == req[r].address
              row == addr[a]
              h == keyHash(a, req[r].privatekey)
          IN /\ \A o \in Address \ {a} : addr'[o] = addr[o]
             /\ req'[r].result = "ok"
             /\ IF ~row.exists
                  THEN /\ addr'[a] = [NoRow EXCEPT !.exists = TRUE, !.privatekey = h]
                       /\ req'[r].authed
                ELSE IF row.privatekey = NoKey
                  THEN /\ addr'[a] = [row EXCEPT !.privatekey = h]
                       /\ req'[r].authed
                ELSE /\ addr'[a] = row
                     /\ req'[r].authed = (~row.locked /\ row.privatekey = h)]_vars

\* C15 witness: a3 was created by a login, and a login with the right key on
\* the locked a1 was refused.
C15_Witness ==
  /\ addr["a3"].exists /\ addr["a3"].privatekey # NoKey /\ addr["a3"].balance = 0
  /\ \E r \in Req : /\ Done(r, "verify", "ok") /\ req[r].address = "a1"
                    /\ req[r].privatekey = "k1" /\ ~req[r].authed
  /\ \E r \in Req : /\ Done(r, "verify", "ok") /\ req[r].address = "a3"
                    /\ req[r].authed /\ ~req[r].found.exists

\* ---------------------------------------------------------- name payments
\* The transfer of handler r has credited address a as a payment to the name
\* of the given metaname and name: a's balance and totalin took the amount
\* and the transaction row names a with the name as sent.
CreditedByName(r, a, metaname, name) ==
  /\ req[r].to = a
  /\ req[r].eff.tin[a] = req[r].amount
  /\ \E i \in 1..Len(txs) :
       txs[i] = TransactionRowOf(a, req[r].from, req[r].amount, Null, metaname, name)

\* The transfer of handler r has credited address a as a plain payment.
CreditedPlainly(r, a) ==
  /\ req[r].to = a
  /\ req[r].eff.tin[a] = req[r].amount
  /\ \E i \in 1..Len(txs) : txs[i] = TransactionRow(a, req[r].from, req[r].amount)

\* C16 (as stated): a successful transfer credits the owner of a name, with
\* sent_metaname and sent_name recorded, exactly when `to` has the form
\* [metaname@]name.tst; when `to` is a v2 address it credits `to` itself,
\* whatever the metadata; a name-form target whose name does not exist fails
\* with name_not_found and changes no balance (the request having passed the
\* balance check).
C16_NameRoutingByTarget ==
  \A r \in Req :
    LET q == req[r] IN
    /\ (Done(r, "transfer", "ok") /\ q.target.form = "name") =>
          CreditedByName(r, names[q.target.name].owner, q.target.metaname, q.target.name)
    /\ (Done(r, "transfer", "ok") /\ q.target.form = "address") =>
          CreditedPlainly(r, q.target.address)
    /\ (q.kind = "transfer" /\ q.pc = "done" /\ q.result # "insufficient_funds"
          /\ q.target.form = "name" /\ ~names[q.target.name].exists) =>
          (q.result = "name_not_found" /\ q.eff = ZeroEff)

\* C16 (amended): a successful transfer credits the owner of a name, with
\* sent_metaname and sent_name recorded, exactly when `to` has the form
\* [metaname@]name.tst or, `to` being a v2 address, the metadata begins with
\* that form (the name is then the metadata's); when `to` is a v2 address and
\* the metadata does not begin with a name it credits `to` itself; a request
\* whose name does not exist fails with name_not_found and changes no balance
\* (the request having passed the balance check).
C16_NameRouting ==
  \A r \in Req :
    LET q == req[r]
        info == nameInfo(q.target, q.metadata)
        byName == q.target.form = "name" \/ q.metadata.form = "name"
    IN
    /\ (Done(r, "transfer", "ok") /\ byName) =>
          CreditedByName(r, names[info.name].owner, info.metaname, info.name)
    /\ (Done(r, "transfer", "ok") /\ ~byName) =>
          CreditedPlainly(r, q.target.address)
    /\ (q.kind = "transfer" /\ q.pc = "done" /\ q.result # "insufficient_funds"
          /\ byName /\ ~names[info.name].exists) =>
          (q.result = "name_not_found" /\ q.eff = ZeroEff)

\* C16 witness: a payment to the address a2 with the metadata naming n1 has
\* ended and has paid a3, the owner of n1; a payment to m@n1.tst has paid a3
\* as well.
C16_Witness ==
  /\ names["n1"].owner = "a3"
  /\ Done("r1", "transfer", "ok") /\ req["r1"].target = AddressTarget("a2")
  /\ req["r1"].metadata = NameMetadata("m", "n1")
  /\ CreditedByName("r1", "a3", "m", "n1")
  /\ Done("r2", "transfer", "ok") /\ req["r2"].target = NameTarget("m", "n1")
  /\ CreditedByName("r2", "a3", "m", "n1")

FirstMatchingRule(transaction) ==
  CASE transaction.from = Null -> "mined"
    [] transaction.from # Null
         /\ (transaction.from = "staking" \/ transaction.to = "staking") -> "staking"
    [] transaction.from \notin {Null, "staking"} /\ transaction.to # "staking"
         /\ transaction.name # Null /\ transaction.to = "name" -> "name_purchase"
    [] transaction.from \notin {Null, "staking"} /\ transaction.to # "staking"
         /\ transaction.name # Null /\ transaction.to = "a" -> "name_a_record"
    [] transaction.from \notin {Null, "staking"} /\ transaction.to # "staking"
         /\ transaction.name # Null /\ transaction.to \notin {"name", "a"} -> "name_transfer"
    [] transaction.from \notin {Null, "staking"} /\ transaction.to # "staking"
         /\ transaction.name = Null -> "transfer"

\* C18: identifyTransactionType gives every transaction row the type of the
\* first matching rule, in the order mined, staking, name_purchase,
\* name_a_record, name_transfer, transfer.
C18_FirstMatchingRule ==
  \A r \in Req :
    Done(r, "json", req[r].result) =>
      req[r].result = FirstMatchingRule(txs[req[r].id])

\* C18 witness: a row from an address to "staking" that names a name has been
\* typed staking, the earlier rule, and not by its name.
C18_Witness ==
  \E r \in Req :
    /\ Done(r, "json", "staking")
    /\ LET transaction == txs[req[r].id]
       IN transaction.name # Null /\ transaction.from \in Address
          /\ transaction.to = "staking"

\* Handler p has deposited amount v for address a, handler w has withdrawn v
\* from a on the row the deposit wrote, and the row of a is the one the
\* withdrawal wrote: deposit(a, v) followed by withdraw(a, v).
DepositThenWithdraw(p, w) ==
  /\ Done(p, "deposit", "ok") /\ Done(w, "withdraw", "ok")
  /\ req[p].from = req[w].from /\ req[p].amount = req[w].amount
  /\ req[w].found = req[p].wrote
  /\ addr[req[p].from] = req[w].wrote

\* C19 (as stated): after deposit(a, v) followed by withdraw(a, v) the
\* balance of a is what it was, stake = 0 and stake_active = false, whatever
\* the state of a was before.
C19_RoundTripToZero ==
  \A p, w \in Req :
    DepositThenWithdraw(p, w) =>
      LET a == req[p].from IN
      /\ addr[a].balance = req[p].found.balance
      /\ addr[a].stake = 0
      /\ ~addr[a].stake_active

\* C19 (amended): after deposit(a, v) followed by withdraw(a, v) the balance
\* and the stake of a are what they were before, and stake_active is true
\* exactly if that stake is positive: stake = 0 and stake_active = false
\* follow when a had no stake before.
C19_RoundTrip ==
  \A p, w \in Req :
    DepositThenWithdraw(p, w) =>
      LET a == req[p].from IN
      /\ addr[a].balance = req[p].found.balance
      /\ addr[a].stake = req[p].found.stake
      /\ addr[a].stake_active = (req[p].found.stake > 0)
      /\ req[p].found.stake = 0 => (addr[a].stake = 0 /\ ~addr[a].stake_active)

\* C19 witness: a deposit and the withdrawal of the same amount have ended on
\* an address that had a stake before, penalised and so inactive.
C19_Witness ==
  \E p, w \in Req :
    /\ DepositThenWithdraw(p, w)
    /\ req[p].found.stake > 0 /\ ~req[p].found.stake_active
    /\ addr[req[p].from].stake_active

\* C20: in every reachable state an address with stake = 0 has
\* stake_active = false, whatever deposits, withdrawals, penalties and
\* validator ticks have run.
C20_NoStakeInactive ==
  \A a \in Address : (addr[a].exists /\ addr[a].stake = 0) => ~addr[a].stake_active

\* The tick's call of Staking.penalize on the previous validator.
Penalizes == boot.select = "penalize" /\ boot'.select = "idle"

\* C21: penalize(staker) moves p = min(validator_penalty, staker.stake) from
\* stake to penalty (for any validator_penalty >= 1, p >= 1 when the staker
\* has a stake): stake falls by p, penalty rises by p, stake_active becomes
\* false, the balance is unchanged and stake + penalty is kept.
C21_Penalize ==
  [][Penalizes =>
       LET old == addr[boot.prevValidator]
           new == addr'[boot.prevValidator]
       IN /\ new.stake + new.penalty = old.stake + old.penalty
          /\ new.stake <= old.stake /\ new.stake >= 0
          /\ old.stake > 0 => (new.stake < old.stake /\ new.penalty > old.penalty)
          /\ ~new.stake_active
          /\ new.balance = old.balance]_vars

\* Handler r has submitted a block as the validator the tick is about to
\* penalise, and the controller accepted it as the validator's.
SubmittedAsValidator(r) ==
  /\ Submitted(r)
  /\ req[r].address = boot.prevValidator
  /\ req[r].validator = req[r].address

Eligible == {a \in Address : addr[a].exists /\ addr[a].stake > 0 /\ addr[a].stake_active}

\* The tick's step that reads the stakers and stores the validator.
SetsValidator == boot.select = "getStakeWeights" /\ boot'.select = "idle"

\* C23: a validator selection tick sets the validator to an address with
\* stake > 0 and stake_active true, and to the empty string exactly when no
\* such address exists.
C23_ElectsEligible ==
  [][SetsValidator =>
       /\ validator' # NoAddr => validator' \in Eligible
       /\ validator' = NoAddr <=> Eligible = {}]_vars

\* C24: validator selection ticks keep running and each ends with the
\* validator stored: if an eligible staker exists, a validator is eventually
\* elected (or no staker is eligible any more).
C24_TickElects ==
  (Eligible # {}) ~> (validator \in Eligible \/ Eligible = {})

\* The DB transaction of submission r was rolled back.
RolledBack(r) == Submitted(r) /\ req[r].result # "ok"

\* C25: the broadcast follows the commit: no transaction or block event has
\* gone out for a row of a DB transaction that was rolled back, such as the
\* mined transaction of a submission that ended with SolutionDuplicate.
C25_BroadcastAfterCommit ==
  \A e \in websockets.events : ~e.raised => ~RolledBack(e.by)

\* C26: a failure of the event broadcast never affects the originating
\* operation: a transfer or block submission whose broadcastEvent raised has
\* committed its writes and returned its normal result.
C26_BroadcastFailureHarmless ==
  \A e \in websockets.events :
    (e.raised /\ req[e.by].pc = "done") => req[e.by].result = "ok"

\* The login handler r switches the session.
LoginActs(r) == req[r].pc = "login" /\ req'[r].pc = "done"

\* C27: a login switches the session atomically: after a successful login
\* auth is the address derived from the private key and isGuest is false,
\* after a failed login the session is guest, and in every state isGuest
\* holds exactly when auth = "guest".
C27_LoginAtomic ==
  /\ [](websockets.isGuest <=> websockets.auth = "guest")
  /\ [][\A r \in Req : LoginActs(r) =>
          IF req[r].authed
            THEN /\ websockets'.auth = v2AddressOf(req[r].privatekey)
                 /\ ~websockets'.isGuest
            ELSE /\ websockets'.auth = "guest"
                 /\ websockets'.isGuest]_vars

\* C27 witness: the session is logged in as a1 after one login succeeded
\* while another login, not authed, is still in progress.
C27_Witness ==
  \E r, o \in Req :
    /\ req[r].kind = "login" /\ req[r].pc = "done" /\ req[r].authed
    /\ websockets.auth = "a1" /\ ~websockets.isGuest
    /\ req[o].kind = "login" /\ req[o].pc = "login" /\ ~req[o].authed

\* ------------------------------------------------------ the name registry
\* Two handlers serve purchases, transfers and A-record updates, one request
\* after the other; a1 and a2 can each afford one name, n1 belongs to a1 and
\* n2 is free.
InitRegistry ==
  /\ addr = [a \in Address |->
               IF a = "a3" THEN NoRow
               ELSE [InitAddr(0)[a] EXCEPT !.balance = nameCost + InitBalance,
                                           !.totalin = nameCost + InitBalance]]
  /\ names = [n \in Name |-> IF n = "n1" THEN NameRow("a1") ELSE NoNameRow]
  /\ unpaid = [n \in Name |-> 0]
  /\ blocks = {InitBlock}
  /\ blockSeq = InitBlock.id
  /\ txs = <<>>
  /\ work = maxWork
  /\ freeNonceSubmission = FALSE
  /\ websockets = Websockets(FALSE)
  /\ workOverTime = <<>>
  /\ req = [r \in Req |-> Idle]
  /\ InitFlags("mining")

NextRegistry ==
  \E r \in Req :
    \/ NameOp(r)
    \/ Len(txs) < MaxRows /\ nextRequest(r)

SpecRegistry == InitRegistry /\ [][NextRegistry]_vars

\* Handler r answers a transfer or an A-record update in this step.
ChangesName(r) ==
  /\ req[r].pc = "idle"
  /\ req'[r].pc = "done"
  /\ req'[r].kind \in {"name_transfer", "name_a_record"}

Purchased(r) ==
  /\ req[r].pc \in {"idle", "createName"}
  /\ req'[r].pc = "done"
  /\ req'[r].kind = "name_purchase"

\* What a purchase answered in this step has done: a successful one debits
\* the buyer alone by name_cost, raises the buyer's totalout by name_cost and
\* inserts the name with owner = original_owner = buyer and unpaid =
\* name_cost; a failed one writes nothing and its result is among `failures`
\* when the name was there by the time it failed.
PurchaseDone(r, failures) ==
  LET q == req'[r]
  IN /\ q.result = "ok" =>
          /\ ~names[q.name].exists
          /\ addr' = [addr EXCEPT ![q.from].balance = @ - nameCost,
                                  ![q.from].totalout = @ + nameCost]
          /\ names' = [names EXCEPT ![q.name] =
                         [exists |-> TRUE, owner |-> q.from,
                          original_owner |-> q.from, a |-> Null, updated |-> 0]]
          /\ unpaid' = [unpaid EXCEPT ![q.name] = nameCost]
     /\ q.result # "ok" =>
          /\ addr' = addr /\ names' = names /\ unpaid' = unpaid /\ txs' = txs
          /\ names[q.name].exists => q.result \in failures
     /\ ~names[q.name].exists => q.result \in {"ok", "insufficient_funds"}

\* Two handlers have answered purchases of the same name with ok.
BothSucceeded ==
  \E r, s \in Req :
     /\ r # s
     /\ req[r].kind = "name_purchase" /\ req[s].kind = "name_purchase"
     /\ req[r].name = req[s].name
     /\ req[r].pc = "done" /\ req[s].pc = "done"
     /\ req[r].result = "ok" /\ req[s].result = "ok"

HashSpace == 256

sha256hex(x) == (x * 5 + 3) % HashSpace

hex(hash) ==
  [k \in 1..18 |-> ((IF k % 2 = 1 THEN hash \div 16 ELSE hash % 16) + 7 * k) % 16]

\* hash.substring(from, to)
substring(hash, from, to) == SubSeq(hex(hash), from + 1, to)

\* parseInt(s, 16) of two hex digits
parseInt16(s) == s[1] * 16 + s[2]

Base36 ==
  <<"0", "1", "2", "3", "4", "5", "6", "7", "8", "9", "a", "b", "c", "d", "e",
    "f", "g", "h", "i", "j", "k", "l", "m", "n", "o", "p", "q", "r", "s", "t",
    "u", "v", "w", "x", "y", "z">>

\* utils.hexToBase36: one character of [0-9a-z] for a byte, seven byte
\* values to a character, "e" for the four values left over
hexToBase36(input) == IF input <= 251 THEN Base36[(input \div 7) + 1] ELSE "e"

\* const chars = ["", "", "", "", "", "", "", "", ""]
NoChars == [i \in 0..8 |-> <<>>]

\* the first loop: chars[i] = hash.substring(0, 2); hash = sha256hex(sha256hex(hash))
RECURSIVE fillChars(_, _, _)
fillChars(chars, hash, i) ==
  IF i <= 8
    THEN fillChars([chars EXCEPT ![i] = substring(hash, 0, 2)],
                   sha256hex(sha256hex(hash)), i + 1)
    ELSE [chars |-> chars, hash |-> hash]

\* (changed copy: the slot is not cleared)
keepSlot(chars, index) == chars

\* chars[index] = ""
clearSlot(chars, index) == [chars EXCEPT ![index] = <<>>]

\* the second loop; `taken` lists the slots in the order they were consumed
RECURSIVE takeChars(_, _, _, _, _)
takeChars(chars, hash, prefix, i, taken) ==
  IF i <= 8
    THEN LET index == parseInt16(substring(hash, 2 * i, 2 + (2 * i))) % 9
         IN IF chars[index] = <<>>
              THEN takeChars(chars, sha256hex(hash), prefix, i, taken)
              ELSE takeChars(clearSlot(chars, index), hash,
                             Append(prefix, hexToBase36(parseInt16(chars[index]))),
                             i + 1, Append(taken, index))
    ELSE [prefix |-> prefix, taken |-> taken]

\* Tenebra.makeV2Address
makeV2Address(key) ==
  LET filled == fillChars(NoChars, sha256hex(sha256hex(key)), 0)
  IN takeChars(filled.chars, filled.hash, <<"t">>, 0, <<>>)

\* POST /v2: key 0 stands for a missing or empty privatekey
postV2(r, privatekey) ==
  /\ req[r].pc = "idle"
  /\ req' = [req EXCEPT ![r] =
       IF privatekey = 0
         THEN [Idle EXCEPT !.kind = "v2", !.pc = "done",
                           !.result = "missing_parameter"]
         ELSE [Idle EXCEPT !.kind = "v2", !.pc = "done", !.result = "ok",
                           !.key = privatekey,
                           !.made = makeV2Address(privatekey)]]
  /\ UNCHANGED <<store, flags, freeNonceSubmission, websockets, workOverTime>>

InitV2 ==
  /\ addr = InitAddr(0)
  /\ InitTables(0)
  /\ InitFlags("mining")

NextV2 == \E r \in Req, privatekey \in 0..MaxKey : postV2(r, privatekey)

SpecV2 == InitV2 /\ [][NextV2]_vars

SubmissionParams(r) ==
  \/ \E address \in {"", "a1", "a3"} \cup LegacyAddress, rawNonce \in RawNonce :
       submitBlockParams(r, address, rawNonce)
  \/ submitGetLastBlock(r)
  \/ submitGetWork(r)
  \/ submitGetValidator(r)
  \/ submit(r)
  \/ submitGetBlockValue(r)
  \/ submitGetUnpaidNameCount(r)
  \/ \E seconds \in Seconds : submitRetarget(r, seconds)
  \/ submitFindUnpaidNames(r)
  \/ submitCreate(r)
  \/ submitGetAddress(r)
  \/ submitCredit(r)
  \/ submitSetWork(r)

NextParams == SubmissionParams("r1") \/ freenonce

SpecParams == Init /\ [][NextParams]_vars

\* Handler r answers its submission in this step.
Answers(r) ==
  /\ req[r].pc # "done"
  /\ req'[r].pc = "done"
  /\ req'[r].kind = "submit"

\* The submission q was well formed.
WellFormed(q) == parameterError(q.address, q.rawNonce) = "none"

\* The answer of a submission that fails before Blocks.submit, `malformed`
\* being the answer to parameters that are not well formed.
Failure(q, malformed) ==
  IF ~(miningEnabled \/ stakingEnabled) THEN "mining_disabled"
  ELSE IF ~WellFormed(q) THEN malformed
  ELSE IF ~Gate(q) THEN (IF miningEnabled THEN "solution_incorrect"
                         ELSE "unselected_validator")
  ELSE "none"

FailedEarly ==
  {"mining_disabled", "missing_parameter", "invalid_parameter",
   "solution_incorrect", "unselected_validator"}

\* C31 as stated: submit_block fails with mining_disabled whenever mining
\* and staking are both disabled, whatever the address and nonce; otherwise
\* an address that is not v2-shaped or a nonce whose length is outside
\* 1..nonce_max_size fails with invalid_parameter, and a well-formed
\* submission that is not accepted fails with solution_incorrect when mining
\* is enabled and unselected_validator when only staking is enabled; every
\* such failure leaves blocks, transactions, balances, names and work
\* unchanged.
C31_InvalidParameter ==
  [][\A r \in Req : Answers(r) =>
       LET q == req'[r]
       IN /\ Failure(q, "invalid_parameter") # "none" =>
               q.result = Failure(q, "invalid_parameter")
          /\ q.result \in FailedEarly => UNCHANGED store
    ]_vars

\* C31, amended: as stated, except that the first parameter found wrong,
\* the address being looked at before the nonce, fails with
\* missing_parameter when it is absent or the empty string, and with
\* invalid_parameter otherwise (an address that is not v2-shaped, an empty
\* array of bytes, a nonce longer than nonce_max_size).
C31_SubmitFailures ==
  [][\A r \in Req : Answers(r) =>
       LET q == req'[r]
           absent == \/ q.address = ""
                     \/ /\ isValidTenebraAddress(q.address, TRUE)
                        /\ \/ q.rawNonce.form = "undefined"
                           \/ q.rawNonce.form = "string" /\ q.rawNonce.length = 0
           malformed == IF absent THEN "missing_parameter" ELSE "invalid_parameter"
       IN /\ Failure(q, malformed) # "none" => q.result = Failure(q, malformed)
          /\ q.result \in FailedEarly =>
               /\ q.result = Failure(q, malformed)
               /\ UNCHANGED store
    ]_vars

\* A submission with an empty nonce string was answered while a mode was
\* enabled.
C31_Witness ==
  /\ miningEnabled \/ stakingEnabled
  /\ Submitted("r1")
  /\ req["r1"].address \in Address
  /\ req["r1"].rawNonce.form = "string"
  /\ req["r1"].rawNonce.length = 0
  /\ req["r1"].result = "missing_parameter"

\* ---- payments from the private key: a1's key is k1 and a1 may be locked;
\* a2 (the address of k2) has no row, a row nobody has claimed, or a row
\* claimed with another key; n1 belongs to a1 or a2, n2 is not registered.
InitPay ==
  /\ InitFlags("mining")
  /\ \E locked \in BOOLEAN, a2 \in {"none", "unclaimed", "claimed"} :
       addr = [InitAddr(0) EXCEPT
                 !["a1"].privatekey = keyHash("a1", "k1"),
                 !["a1"].locked = locked,
                 !["a2"] = CASE a2 = "none" -> NoRow
                             [] a2 = "unclaimed" -> @
                             [] OTHER -> [@ EXCEPT !.privatekey = keyHash("a2", "k1")]]
  /\ \E owner \in {"a1", "a2"} :
       names = [n \in Name |-> IF n = "n1" THEN NameRow(owner) ELSE NoNameRow]
  /\ unpaid = [n \in Name |-> 0]
  /\ blocks = {InitBlock} /\ blockSeq = InitBlock.id
  /\ txs = <<>> /\ work = maxWork /\ freeNonceSubmission = FALSE
  /\ websockets = Websockets(FALSE)
  /\ workOverTime = <<>>
  /\ req = [r \in Req |-> Idle]

\* One handler takes any request; beside it a1 pays a2 all it has.
NextPay ==
  \/ Pay("r1", Key, PayTarget, RawAmount)
  \/ Pay("r2", {"k1"}, {AddressTarget("a2")}, {[form |-> "number", n |-> InitBalance]})

SpecPay == InitPay /\ [][NextPay]_vars

\* The handler answered a makeTransaction request with `res`.
Refused(r, res) ==
  req[r].kind = "transfer" /\ req[r].pc = "done" /\ req[r].result = res

\* The handler has written no transaction row and changed no balance,
\* totalin or totalout.
WroteNothing(r) == req[r].eff = ZeroEff

\* C32 as stated: a makeTransaction request that fails, by amount < 1
\* (invalid_parameter), authentication failure (auth_failed), sender.balance
\* < amount (insufficient_funds) or an unknown target name (name_not_found),
\* writes no transaction row and changes no address's balance, totalin or
\* totalout.
C32_FailureWritesNothing ==
  \A r \in Req :
    /\ (req[r].kind = "transfer" /\ req[r].pc = "done" /\ req[r].amount < 1) =>
          Refused(r, "invalid_parameter")
    /\ (\E res \in {"invalid_parameter", "auth_failed", "insufficient_funds",
                    "name_not_found"} : Refused(r, res)) => WroteNothing(r)

\* C32, amended: as stated, except that an amount given as the number 0
\* fails with missing_parameter (any other amount < 1 with
\* invalid_parameter).
C32_FailureWritesNothingAnyZero ==
  \A r \in Req :
    /\ (req[r].kind = "transfer" /\ req[r].pc = "done" /\ req[r].amount < 1) =>
          IF req[r].rawAmount = [form |-> "number", n |-> 0]
            THEN Refused(r, "missing_parameter")
            ELSE Refused(r, "invalid_parameter")
    /\ (\E res \in {"missing_parameter", "invalid_parameter", "auth_failed",
                    "insufficient_funds", "name_not_found"} : Refused(r, res)) =>
          WroteNothing(r)

\* a1's payment of 1 was refused for its funds after the payment beside it
\* went through.
C32_Witness ==
  /\ Refused("r2", "ok")
  /\ Refused("r1", "insufficient_funds")
  /\ req["r1"].from = "a1"
  /\ req["r1"].amount = 1

\* ---- a chain from its first start: the stores are empty, the node is
\* started with MINING_ENABLED and GEN_GENESIS, and two submissions follow.
InitChain ==
  /\ boot = [pc |-> "env", envMining |-> TRUE, envStaking |-> FALSE, envGenesis |-> TRUE,
             miningExists |-> FALSE, stakingExists |-> FALSE, workExists |-> FALSE,
             validatorExists |-> FALSE, genesisGenned |-> FALSE,
             mining |-> FALSE, staking |-> FALSE, tick |-> FALSE,
             select |-> "idle", prevValidator |-> NoAddr]
  /\ miningEnabled = FALSE /\ stakingEnabled = FALSE
  /\ work = 0 /\ validator = NoAddr
  /\ blocks = {} /\ blockSeq = 0
  /\ addr = [a \in Address |-> NoRow]
  /\ unpaid = [n \in Name |-> 0]
  /\ names = [n \in Name |-> NoNameRow]
  /\ txs = <<>>
  /\ freeNonceSubmission = FALSE
  /\ websockets = Websockets(FALSE)
  /\ workOverTime = <<>>
  /\ req = [r \in Req |-> Idle]

NextChain ==
  \/ NextBoot
  \/ boot.pc = "done" /\ \E r \in Req : Submission(r)

SpecChain == InitChain /\ [][NextChain]_vars

\* C33: once every submission has been answered, the block ids of the
\* committed blocks are exactly 1..n, with no gap and no repeat, and the
\* genesis block has id 1.
C33_IdsDense ==
  (\A r \in Req : req[r].pc \in {"idle", "done"}) =>
     /\ {b.id : b \in blocks} = 1..Cardinality(blocks)
     /\ blocks # {} => GenesisRow(1) \in blocks

\* ---- restarts: Tenebra.init on stores a former run has left ------------
\* The chain is empty, or holds the genesis block alone or with a second
\* block; every key of the fast store may be there or lost, the work and
\* the validator it holds are what the former run stored.  boot.stored
\* remembers what the fast store held (bookkeeping of the model).
StoredWork == {minWork, 97500, maxWork}

InitRestart ==
  /\ blocks \in {{}, {GenesisRow(1)},
                 {GenesisRow(1), [id |-> 2, hash |-> <<"a1", 1, 1>>, address |-> "a1",
                                  difficulty |-> maxWork, value |-> baseValueEarly]}}
  /\ blockSeq = Cardinality(blocks)
  /\ \E em, es, eg, me, se, we, ve, gg \in BOOLEAN :
       \E w \in StoredWork, v \in {NoAddr, "a1"} :
         /\ work = (IF we THEN w ELSE 0)
         /\ validator = (IF ve THEN v ELSE NoAddr)
         /\ boot = [pc |-> "env", envMining |-> em, envStaking |-> es,
                    envGenesis |-> eg,
                    miningExists |-> me, stakingExists |-> se, workExists |-> we,
                    validatorExists |-> ve, genesisGenned |-> gg,
                    mining |-> FALSE, staking |-> FALSE, tick |-> FALSE,
                    select |-> "idle", prevValidator |-> NoAddr,
                    stored |-> [workExists |-> we, work |-> work,
                                validatorExists |-> ve, validator |-> validator,
                                blocks |-> blocks]]
  /\ blocks = {} => ~boot.genesisGenned
  /\ miningEnabled \in BOOLEAN /\ stakingEnabled \in BOOLEAN
  /\ boot.miningExists \/ ~miningEnabled
  /\ boot.stakingExists \/ ~stakingEnabled
  /\ addr = InitAddr(0)
  /\ unpaid = [n \in Name |-> 0]
  /\ names = [n \in Name |-> NameRow("a1")]
  /\ txs = <<>>
  /\ freeNonceSubmission = FALSE
  /\ websockets = Websockets(FALSE)
  /\ workOverTime = <<>>
  /\ req = [r \in Req |-> Idle]

SpecRestart == InitRestart /\ [][NextBoot]_vars

\* C36: genGenesis is idempotent: it inserts the genesis block only when the
\* chain has no block; called when a block exists, also after the fast store
\* lost its genesis-genned key, it inserts no block and raises no error.
C36_GenesisIdempotent ==
  [][(boot.pc = "genesis" /\ blocks # {}) =>
        (blocks' = blocks /\ boot'.pc # "failed")]_vars

\* C35 as claimed: after init the validator is "" and the work is the
\* maximum work, whatever the fast store held before the restart.
C35_RestartDefaults ==
  boot.pc = "done" => (validator = NoAddr /\ work = maxWork)

\* C35: after init the validator is "" and the work is the maximum work
\* where the fast store held no such key before the restart; a work or a
\* validator it held is kept.
C35_RestartKeepsStored ==
  boot.pc = "done" =>
     /\ work = (IF boot.stored.workExists THEN boot.stored.work ELSE maxWork)
     /\ validator = (IF boot.stored.validatorExists THEN boot.stored.validator
                                                    ELSE NoAddr)

C35_Witness ==
  /\ boot.pc = "done"
  /\ boot.stored.workExists /\ boot.stored.work = minWork /\ work = minWork
  /\ ~boot.stored.validatorExists /\ validator = NoAddr

\* ---- the work sampler ----------------------------------------------------
\* The node has run for `n` minutes at the maximum work: the list holds the
\* n samples taken so far.  The sampler runs on, the operator's debug
\* console sets the work.
InitSampler ==
  /\ InitData(0) /\ addr = InitAddr(0) /\ websockets = Websockets(FALSE)
  /\ miningEnabled = TRUE /\ stakingEnabled = FALSE /\ validator = NoAddr
  /\ \E n \in {0, workOverTimeStop - 1} :
       /\ workOverTime = [i \in 1..n |-> Sample(maxWork, n + 1 - i)]
       /\ boot = [pc |-> "done", envMining |-> TRUE, envStaking |-> FALSE,
                  envGenesis |-> FALSE,
                  miningExists |-> TRUE, stakingExists |-> TRUE, workExists |-> TRUE,
                  validatorExists |-> TRUE, genesisGenned |-> TRUE,
                  mining |-> TRUE, staking |-> FALSE, tick |-> FALSE,
                  select |-> "idle", prevValidator |-> NoAddr,
                  sampler |-> "idle", minute |-> n, started |-> n]

NextSampler ==
  \/ samplerPush
  \/ samplerTrim
  \/ \E newWork \in DebugWork : setwork(newWork)

SpecSampler == InitSampler /\ [][NextSampler]_vars

NewestFirst(list) == \A i \in 1..(Len(list) - 1) : list[i].at > list[i + 1].at

OldestFirst(list) == \A i \in 1..(Len(list) - 1) : list[i].at < list[i + 1].at

\* C34: the work-over-time list never holds more than 1440 entries, between
\* the push and the trim of a sampler tick too; it is ordered newest first
\* in the store, and getWorkOverTime returns its entries oldest first.
C34_WorkOverTime ==
  /\ Len(workOverTime) <= workOverTimeStop
  /\ NewestFirst(workOverTime)
  /\ OldestFirst(getWorkOverTime)

\* ---- one validator epoch -------------------------------------------------
\* Under Spec with staking no validator selection tick runs: the whole
\* behaviour lies within the epoch of the validator elected at the start.
AcceptedInEpoch == {b \in blocks : b.id > InitBlock.id}

MoneyOp(r) ==
  \/ \E sender \in {"a1", "a2"}, name \in Name : registerName(r, sender, name)
  \/ createName(r)
  \/ \E to \in {"a2", "a3"}, amount \in 0..1 :
       makeTransactionTo(r, "a1", AddressTarget(to), NoMetadata, amount)
  \/ getRecipient(r)
  \/ \E w \in Writes : pushTransactionWrite(r, w)

NextMoney == (\E r \in Req : MoneyOp(r)) \/ Submission("r1")

SpecMoney == InitRows /\ [][NextMoney]_vars

RECURSIVE SumBalance(_)
SumBalance(S) ==
  IF S = {} THEN 0
  ELSE LET a == CHOOSE x \in S : TRUE IN addr[a].balance + SumBalance(S \ {a})

\* Tenebra.getMoneySupply: schemas.address.sum("balance")
getMoneySupply == SumBalance({a \in Address : addr[a].exists})

\* what the addresses held at the start, out of the rewards of earlier blocks
InitSupply == nameCost + InitBalance + InitBalance

RewardsCredited == SumValue(blocks \ {InitBlock})

NameCosts ==
  nameCost * Cardinality({i \in 1..Len(txs) :
                            identifyTransactionType(txs[i]) = "name_purchase"})

Quiescent == \A r \in Req : req[r].pc \in {"idle", "done"}

\* C38: with transfers, block rewards and name purchases alone, every
\* address has balance = totalin - totalout, and the sum of all balances is
\* the sum of the block rewards credited less the sum of the name purchase
\* costs (here: on top of the supply the run started with); stated for the
\* states in which no request is in progress.
C38_Supply ==
  Quiescent =>
     /\ \A a \in Address :
          addr[a].exists => addr[a].balance = addr[a].totalin - addr[a].totalout
     /\ getMoneySupply = InitSupply + RewardsCredited - NameCosts

\* C39: once an address row has a privatekey, no operation changes it and
\* the row is never deleted; from then on verify returns authed = true for
\* that address only for the key whose hash was stored, under any
\* interleaving of the calls.
C39_KeyNeverChanges ==
  [][\A a \in Address :
       (addr[a].exists /\ addr[a].privatekey # NoKey) =>
          /\ addr'[a].exists
          /\ addr'[a].privatekey = addr[a].privatekey
          /\ \A r \in Req :
               (req[r].pc = "verifyAct" /\ req[r].address = a /\ req'[r].authed)
                  => keyHash(a, req[r].privatekey) = addr[a].privatekey]_vars

====
